---- MODULE Spec2Model ----
(***************************************************************************)
(* A model of the BusTub buffer pool of this repository:                   *)
(*   - LRUKReplacer               (src/src/buffer/lru_k_replacer.cpp)      *)
(*   - BufferPoolManager          (src/src/buffer/buffer_pool_manager.cpp) *)
(*   - LRUReplacer                (src/src/buffer/lru_replacer.cpp)        *)
(*   - BufferPoolManagerInstance  (buffer_pool_manager_instance.cpp)       *)
(* Every public method is one action; a method that calls other methods    *)
(* performs their effects inside the same action.                          *)
(*                                                                         *)
(* Three specifications share the variables (the two pools have the same   *)
(* members, so one set of variables serves whichever pool is running):     *)
(*   SpecLRUK  the LRUKReplacer driven directly through its interface      *)
(*   SpecBPM   the BufferPoolManager (which owns an LRUKReplacer)          *)
(*   SpecBPI   the BufferPoolManagerInstance (which owns an LRUReplacer)   *)
(***************************************************************************)
EXTENDS Integers, Sequences, FiniteSets, TLC

\* ------------------------------------------------------------------ bounds
PoolSize == 2
\* page ids range over 0 .. MaxPages-1; AllocatePage stops at MaxPages
MaxPages == 3
\* Page::pin_count_ is only ever incremented by the code; fetches stop here
MaxPin == 2
\* the replacer's k_ is drawn from 1 .. MaxK
MaxK == 3
\* LRUKNode::access_cnt stops growing here
MaxAccess == 4
\* the replacer driven on its own holds at most this many recorded accesses
MaxHistory == 3
\* |replacer_size_| stays within this
MaxSize == 3
\* length of free_list_ stays within this
MaxFree == 3
\* page contents are a value 0 .. MaxData (0 is the zeroed page)
MaxData == 1
\* pool_size of the BufferPoolManagerInstance (its pages carry client data)
BPIPoolSize == 1
\* the number of BasicPageGuard objects, the first GuardPages of them built
\* holding a page each
MaxGuards == 3
GuardPages == 2
\* the most calls the guards make on the buffer pool manager
MaxCalls == 3
\* keys 0 .. MaxKey, values 0 .. MaxValue, hashes 0 .. MaxHash
MaxKey == 1
MaxValue == 1
MaxHash == 3
\* the directory has 2^MaxDepth entries (DIRECTORY_ARRAY_SIZE)
MaxDepth == 2
\* BUCKET_ARRAY_SIZE
BucketSize == 2
\* the most calls made on a hash table
MaxOps == 2
\* the page id the first NewPage of the table's constructor may return is
\* 0 .. MaxFirstPage
MaxFirstPage == 1
\* the number of threads calling one BufferPoolManager
MaxThreads == 2
\* the most NewPage and FetchPage calls the threads enter
MaxStarted == 3
\* the largest number of instances of a parallel pool
MaxInstances == 3
\* the most page ids one instance allocates
MaxIds == 4
\* the frames of the pool a ClockReplacer serves
MaxClockPages == 3
\* the calls the threads make on one LRUKReplacer
MaxLatchedCalls == 2
\* the calls made on a bucket page on its own
MaxBucketOps == 3

INVALID_PAGE_ID == -1

\* the frame ids a replacer driven on its own is called with
FrameIds == 0 .. (PoolSize - 1)
PageIds == 0 .. (MaxPages - 1)
Data == 0 .. MaxData

VARIABLES
  \* ---- LRUKReplacer
  replacer,            \* [k_, replacer_size_, node_store_, candidates_, candidates_k_]
  default_evictable,   \* the value LRUKNode{} gives is_evictable_ (set in the header)
  set_unaccessed,      \* history: SetEvictable was called on a frame never accessed
  history,             \* history: the frames of the RecordAccess calls made on the replacer
                       \* driven on its own, oldest first, without those of frames since
                       \* evicted or removed (a position in it is an access timestamp)
  \* ---- the members BufferPoolManager and BufferPoolManagerInstance both have
  pool_size,           \* pool_size_
  pages,               \* pages_[f] = [page_id_, pin_count_, is_dirty_, data_]
  page_table,          \* page_table_: page id -> frame id (a partial function)
  free_list,           \* free_list_
  next_page_id,        \* next_page_id_
  disk,                \* the disk manager's store: page id -> contents
  pins,                \* history: per page, successful New/Fetch not yet matched by a successful Unpin
  \* ---- BufferPoolManagerInstance only
  lru,                 \* its LRUReplacer: [pin_count_, candidates_]
  num_instances,       \* num_instances_
  instance_index,      \* instance_index_
  owed,                \* history: pages whose contents were unpinned dirty and not written since
  \* ---- the LRUReplacer driven on its own
  lru_pins,            \* history: per frame, Pin calls not yet matched by an Unpin call
  \* ---- the page ids of a parallel pool of BufferPoolManagerInstances
  peer,                \* another instance of the pool: [instance_index_, next_page_id_]
  ids,                 \* history: the ids AllocatePage returned, in order
  peer_ids,            \* history: the ids the other instance's AllocatePage returned
  \* ---- BasicPageGuard objects
  guards,              \* per guard object: [state, bpm_, page_, is_dirty_]; bpm_ is TRUE for
                       \* a non-null pointer, page_ is the id of the page pointed to or -1
  bpm_calls,           \* history: the calls the guards made on the buffer pool manager
  guard_ub,            \* whether a guard dereferenced a null page_, and what came of it
  \* ---- DiskExtendibleHashTable
  ht,                  \* [directory_page_id_, global_depth, local_depths, bucket_page_ids,
                       \* buckets]: the directory page's contents and the bucket pages'
  hash_fn,             \* hash_fn_: key -> hash
  ht_ops,              \* history: the calls made on the table, with what they returned
  \* ---- threads calling one BufferPoolManager
  threads,             \* per thread: [pc, op, page_id, frame, ub], where it is in NewPage
                       \* or FetchPage, the locals page_id and frame_id, and whether it
                       \* has gone on after a call that was undefined
  started,             \* history: how many NewPage and FetchPage calls the threads entered
  \* ---- a HashTableBucketPage on its own
  bucket,              \* [size_, taken_, free_, readable_, occupied_, array_]
  bucket_ops,          \* history: the calls made on the bucket page
  \* ---- ClockReplacer
  clock,               \* [clock_hand_, unpinned_counter_, num_pages_, state_]
  victim_pc,           \* where the Victim call in progress is: "idle" or "sweep"
  \* ---- threads calling one LRUKReplacer
  latch_,              \* latch_ of the replacer: the thread that holds it, or 0
  callers,             \* per thread: [pc, op, frame, flag, found, ok]
  serial,              \* history: the replacer and the results that the calls give when
                       \* each runs alone, in the order the calls took the latch
  \* ---- threads calling one LRUReplacer
  lru_latch,           \* latch_ of the LRUReplacer: the thread that holds it, or 0
  lru_callers,         \* per thread: [pc, op, frame, ub]
  \* ---- what the last call returned
  last

lrukVars == <<replacer, default_evictable, set_unaccessed, history>>
bpmVars == <<pool_size, pages, page_table, free_list, next_page_id, disk, pins>>
bpiVars == <<lru, num_instances, instance_index, owed>>
lruVars == <<lru_pins>>
allocVars == <<peer, ids, peer_ids>>
guardVars == <<guards, bpm_calls, guard_ub>>
hashVars == <<ht, hash_fn, ht_ops>>
concVars == <<threads, started>>
bucketVars == <<bucket, bucket_ops>>
clockVars == <<clock, victim_pc>>
latchedVars == <<latch_, callers, serial>>
lruConcVars == <<lru_latch, lru_callers>>
unitVars == <<bucketVars, clockVars, latchedVars, lruConcVars>>
extVars == <<lruVars, allocVars, guardVars, hashVars, concVars, unitVars>>
vars == <<lrukVars, bpmVars, bpiVars, extVars, last>>

\* ----------------------------------------------------------------- helpers
\* std::list<frame_id_t>::remove(x)
ListRemove(s, x) == SelectSeq(s, LAMBDA y : y # x)

InList(s, x) == \E i \in 1 .. Len(s) : s[i] = x

\* map[key] = val on a std::unordered_map
Put(m, key, val) == [x \in (DOMAIN m) \cup {key} |-> IF x = key THEN val ELSE m[x]]

\* map.erase(key)
Erase(m, key) == [x \in (DOMAIN m) \ {key} |-> m[x]]

EmptyMap == [x \in {} |-> 0]

SetMin(S) == CHOOSE x \in S : \A y \in S : x <= y

RECURSIVE SumOver(_, _)
SumOver(f, S) == IF S = {} THEN 0
                 ELSE LET x == CHOOSE y \in S : TRUE IN f[x] + SumOver(f, S \ {x})

\* what a call returned: a bool, or a Page* as the frame it points into (ok
\* FALSE for nullptr), or the frame Evict/Victim stored through its argument
Ret(ok, frame) == [ok |-> ok, frame |-> frame]

NoCall == Ret(FALSE, -1)

\* ============================================================ LRUKReplacer
\* LRUKNode{}: a value-initialised node
LRUKNode == [access_cnt |-> 0, is_evictable_ |-> default_evictable]

\* node_store_[f]: operator[] yields a fresh LRUKNode{} for an absent key
NodeAt(r, f) == IF f \in DOMAIN r.node_store_ THEN r.node_store_[f] ELSE LRUKNode

\* LRUKReplacer::LRUKReplacer(num_frames, k)
NewReplacer(k) ==
  [k_ |-> k, replacer_size_ |-> 0, node_store_ |-> EmptyMap,
   candidates_ |-> <<>>, candidates_k_ |-> <<>>]

\* the first frame of list s whose node is evictable, or -1
FirstEvictable(r, s) ==
  LET idx == {i \in 1 .. Len(s) : NodeAt(r, s[i]).is_evictable_}
  IN IF idx = {} THEN -1 ELSE s[SetMin(idx)]

\* Evict without line 27 / 39 (node_store_.erase): the victim keeps its node
EvictKeepNode(r) ==
  LET c == FirstEvictable(r, r.candidates_)
      ck == FirstEvictable(r, r.candidates_k_)
  IN IF c # -1
     THEN [ok |-> TRUE, frame |-> c,
           r |-> [r EXCEPT !.candidates_ = ListRemove(@, c),
                           !.replacer_size_ = @ - 1]]
     ELSE IF ck # -1
     THEN [ok |-> TRUE, frame |-> ck,
           r |-> [r EXCEPT !.candidates_k_ = ListRemove(@, ck),
                           !.replacer_size_ = @ - 1]]
     ELSE [ok |-> FALSE, frame |-> -1, r |-> r]

\* LRUKReplacer::Evict: [ok, frame, r]
Evict(r) ==
  LET c == FirstEvictable(r, r.candidates_)
      ck == FirstEvictable(r, r.candidates_k_)
  IN IF c # -1
     THEN [ok |-> TRUE, frame |-> c,
           r |-> [r EXCEPT !.candidates_ = ListRemove(@, c),
                           !.node_store_ = Erase(@, c),
                           !.replacer_size_ = @ - 1]]
     ELSE IF ck # -1
     THEN [ok |-> TRUE, frame |-> ck,
           r |-> [r EXCEPT !.candidates_k_ = ListRemove(@, ck),
                           !.node_store_ = Erase(@, ck),
                           !.replacer_size_ = @ - 1]]
     ELSE [ok |-> FALSE, frame |-> -1, r |-> r]

\* LRUKReplacer::RecordAccess
RecordAccess(r, f) ==
  LET first_access == f \notin DOMAIN r.node_store_
      cnt == NodeAt(r, f).access_cnt + 1
      ns == Put(r.node_store_, f, [NodeAt(r, f) EXCEPT !.access_cnt = cnt])
  IN IF first_access
     THEN [r EXCEPT !.node_store_ = ns,
                    !.candidates_ = Append(@, f),
                    !.replacer_size_ = @ + 1]
     ELSE [r EXCEPT !.node_store_ = ns,
                    !.candidates_ = IF cnt >= r.k_ THEN ListRemove(@, f)
                                    ELSE Append(ListRemove(@, f), f),
                    !.candidates_k_ = IF cnt >= r.k_ THEN Append(ListRemove(@, f), f)
                                      ELSE ListRemove(@, f)]

\* LRUKReplacer::SetEvictable
SetEvictable(r, f, set_evictable) ==
  LET prev_is_evictable == NodeAt(r, f).is_evictable_
  IN [r EXCEPT !.node_store_ =
                  Put(@, f, [NodeAt(r, f) EXCEPT !.is_evictable_ = set_evictable]),
               !.replacer_size_ =
                  IF prev_is_evictable # set_evictable
                  THEN (IF set_evictable THEN @ + 1 ELSE @ - 1)
                  ELSE @]

\* LRUKReplacer::Remove
Remove(r, f) ==
  [r EXCEPT !.node_store_ = Put(@, f, [NodeAt(r, f) EXCEPT !.access_cnt = 0])]

\* LRUKReplacer::Size. replacer_size_ is a size_t: the model keeps the integer
\* it is congruent to modulo 2^64, so -1 stands for the wrapped value 2^64 - 1.
Size(r) == r.replacer_size_

\* the bounds on the counters of a replacer
ReplacerInBounds(r) ==
  /\ r.replacer_size_ \in (0 - MaxSize) .. MaxSize
  /\ \A f \in DOMAIN r.node_store_ : r.node_store_[f].access_cnt <= MaxAccess

\* a frame that has been accessed and not evicted since
Accessed(r, f) == InList(r.candidates_, f) \/ InList(r.candidates_k_, f)

\* ------------------------------------------ the replacer driven on its own
LRUKInit ==
  /\ \E k \in 1 .. MaxK : replacer = NewReplacer(k)
  /\ default_evictable \in BOOLEAN
  /\ set_unaccessed = FALSE
  /\ history = <<>>

LRUKIdle ==
  /\ replacer = NewReplacer(1)
  /\ default_evictable = TRUE
  /\ set_unaccessed = FALSE
  /\ history = <<>>

DoRecordAccess(f) ==
  /\ ReplacerInBounds(RecordAccess(replacer, f))
  /\ Len(history) < MaxHistory
  /\ replacer' = RecordAccess(replacer, f)
  /\ history' = Append(history, f)
  /\ last' = Ret(TRUE, -1)
  /\ UNCHANGED <<default_evictable, set_unaccessed, bpmVars, bpiVars, extVars>>

DoSetEvictable(f, b) ==
  /\ ReplacerInBounds(SetEvictable(replacer, f, b))
  /\ replacer' = SetEvictable(replacer, f, b)
  /\ set_unaccessed' = (set_unaccessed \/ ~Accessed(replacer, f))
  /\ last' = Ret(TRUE, -1)
  /\ UNCHANGED <<default_evictable, history, bpmVars, bpiVars, extVars>>

DoEvict ==
  LET e == Evict(replacer)
  IN /\ ReplacerInBounds(e.r)
     /\ replacer' = e.r
     /\ history' = IF e.ok THEN ListRemove(history, e.frame) ELSE history
     /\ last' = Ret(e.ok, e.frame)
     /\ UNCHANGED <<default_evictable, set_unaccessed, bpmVars, bpiVars, extVars>>

DoRemove(f) ==
  /\ replacer' = Remove(replacer, f)
  /\ history' = ListRemove(history, f)
  /\ last' = Ret(TRUE, -1)
  /\ UNCHANGED <<default_evictable, set_unaccessed, bpmVars, bpiVars, extVars>>

NextLRUK ==
  \/ \E f \in FrameIds : DoRecordAccess(f)
  \/ \E f \in FrameIds, b \in BOOLEAN : DoSetEvictable(f, b)
  \/ DoEvict
  \/ \E f \in FrameIds : DoRemove(f)

\* ======================================================= BufferPoolManager
\* a frame of pages_ as `new Page[pool_size_]` leaves it
EmptyPage == [page_id_ |-> INVALID_PAGE_ID, pin_count_ |-> 0, is_dirty_ |-> FALSE, data_ |-> 0]

\* the frames of the pool
Frames == 0 .. (pool_size - 1)

\* BufferPoolManager::BufferPoolManager(pool_size, ...), and the members the
\* constructor of BufferPoolManagerInstance sets the same way
BPMInit(n) ==
  /\ pool_size = n
  /\ pages = [f \in 0 .. (n - 1) |-> EmptyPage]
  /\ page_table = EmptyMap
  /\ free_list = [i \in 1 .. n |-> i - 1]
  /\ next_page_id = 0
  /\ disk = [p \in PageIds |-> 0]
  /\ pins = [p \in PageIds |-> 0]

\* BufferPoolManager::AllocatePage (declared in the header)
AllocatePage == next_page_id

\* the effect of FlushPage(p) on pages_ and on the disk, p resident in pt
FlushedPages(pg, pt, p) == [pg EXCEPT ![pt[p] % pool_size].is_dirty_ = FALSE]
FlushedDisk(pg, pt, dk, p) == [dk EXCEPT ![p] = pg[pt[p] % pool_size].data_]

\* BufferPoolManager::AllocateNewFrame: the set of its possible outcomes
\* [ok, frame, free_list, replacer, page_table, pages, disk]. The loop over the
\* unordered page_table_ stops at the first entry that maps to the victim frame;
\* when several entries do, which comes first is not specified.
AllocateNewFrame ==
  LET same == [ok |-> FALSE, frame |-> -1, free_list |-> free_list, replacer |-> replacer,
               page_table |-> page_table, pages |-> pages, disk |-> disk]
      e == Evict(replacer)
      owners == {p \in DOMAIN page_table : page_table[p] = e.frame}
  IN IF free_list # <<>>
     THEN {[same EXCEPT !.ok = TRUE, !.frame = Head(free_list), !.free_list = Tail(free_list)]}
     ELSE IF ~e.ok
     THEN {same}
     ELSE IF owners = {}
     THEN {[same EXCEPT !.ok = TRUE, !.frame = e.frame, !.replacer = e.r]}
     ELSE {[same EXCEPT !.ok = TRUE, !.frame = e.frame, !.replacer = e.r,
                        !.pages = FlushedPages(pages, page_table, p),
                        !.disk = FlushedDisk(pages, page_table, disk, p),
                        !.page_table = Erase(page_table, p)] : p \in owners}

\* page_table_.emplace(p, f): no effect when the key is present
Emplace(pt, p, f) == IF p \in DOMAIN pt THEN pt ELSE Put(pt, p, f)

\* RecordAccess(f) then SetEvictable(f, b), as every method of the pool calls them
Touch(r, f, b) == SetEvictable(RecordAccess(r, f), f, b)

\* BufferPoolManager::NewPage
NewPage ==
  /\ next_page_id < MaxPages
  /\ \E a \in AllocateNewFrame :
       IF ~a.ok
       THEN /\ last' = Ret(FALSE, -1)
            /\ UNCHANGED <<lrukVars, bpmVars, bpiVars, extVars>>
       ELSE LET pid == AllocatePage
                f == a.frame
            IN /\ pins[pid] < MaxPin
               /\ ReplacerInBounds(Touch(a.replacer, f, FALSE))
               /\ next_page_id' = next_page_id + 1
               /\ pages' = [a.pages EXCEPT ![f % pool_size] =
                              [page_id_ |-> pid, pin_count_ |-> 1,
                               is_dirty_ |-> FALSE, data_ |-> 0]]
               /\ replacer' = Touch(a.replacer, f, FALSE)
               /\ page_table' = Emplace(a.page_table, pid, f)
               /\ free_list' = a.free_list
               /\ disk' = a.disk
               /\ pins' = [pins EXCEPT ![pid] = @ + 1]
               /\ last' = Ret(TRUE, f)
               /\ UNCHANGED <<pool_size, default_evictable, set_unaccessed, history, bpiVars, extVars>>

\* BufferPoolManager::FetchPage, the page resident
FetchPageHit(p) ==
  /\ p \in DOMAIN page_table
  /\ LET f == page_table[p]
     IN /\ pages[f % pool_size].pin_count_ < MaxPin
        /\ pins[p] < MaxPin
        /\ ReplacerInBounds(Touch(replacer, f, FALSE))
        /\ replacer' = Touch(replacer, f, FALSE)
        /\ pages' = [pages EXCEPT ![f % pool_size].pin_count_ = @ + 1]
        /\ pins' = [pins EXCEPT ![p] = @ + 1]
        /\ last' = Ret(TRUE, f)
        /\ UNCHANGED <<pool_size, page_table, free_list, next_page_id, disk,
                       default_evictable, set_unaccessed, history, bpiVars, extVars>>

\* BufferPoolManager::FetchPage, the page not resident
FetchPageMiss(p) ==
  /\ p \notin DOMAIN page_table
  /\ \E a \in AllocateNewFrame :
       IF ~a.ok
       THEN /\ last' = Ret(FALSE, -1)
            /\ UNCHANGED <<lrukVars, bpmVars, bpiVars, extVars>>
       ELSE LET f == a.frame
            IN /\ pins[p] < MaxPin
               /\ ReplacerInBounds(Touch(a.replacer, f, FALSE))
               /\ pages' = [a.pages EXCEPT ![f % pool_size] =
                              [page_id_ |-> p, pin_count_ |-> 1,
                               is_dirty_ |-> FALSE, data_ |-> a.disk[p]]]
               /\ replacer' = Touch(a.replacer, f, FALSE)
               /\ page_table' = Emplace(a.page_table, p, f)
               /\ free_list' = a.free_list
               /\ disk' = a.disk
               /\ pins' = [pins EXCEPT ![p] = @ + 1]
               /\ last' = Ret(TRUE, f)
               /\ UNCHANGED <<pool_size, next_page_id, default_evictable, set_unaccessed, history, bpiVars, extVars>>

FetchPage(p) == FetchPageHit(p) \/ FetchPageMiss(p)

\* page_table_[p]: operator[] enters p -> 0 when p is absent
Indexed(pt, p) == IF p \in DOMAIN pt THEN pt ELSE Put(pt, p, 0)

\* what UnpinPage stores in is_dirty_
UnpinDirty(old, is_dirty) == is_dirty

\* BufferPoolManager::UnpinPage
UnpinPage(p, is_dirty) ==
  LET pt == Indexed(page_table, p)
      f == pt[p]
  IN /\ page_table' = pt
     /\ IF pages[f % pool_size].pin_count_ <= 0
        THEN /\ last' = Ret(FALSE, -1)
             /\ UNCHANGED <<pages, replacer, pins>>
        ELSE /\ ReplacerInBounds(Touch(replacer, f, TRUE))
             /\ pages' = [pages EXCEPT ![f % pool_size].is_dirty_ = UnpinDirty(@, is_dirty)]
             /\ replacer' = Touch(replacer, f, TRUE)
             /\ pins' = [pins EXCEPT ![p] = IF @ > 0 THEN @ - 1 ELSE 0]
             /\ last' = Ret(TRUE, -1)
     /\ UNCHANGED <<pool_size, free_list, next_page_id, disk, default_evictable, set_unaccessed, history, bpiVars, extVars>>

\* BufferPoolManager::FlushPage
FlushPage(p) ==
  /\ IF p \notin DOMAIN page_table
     THEN /\ last' = Ret(FALSE, -1)
          /\ UNCHANGED <<pages, disk>>
     ELSE /\ pages' = FlushedPages(pages, page_table, p)
          /\ disk' = FlushedDisk(pages, page_table, disk, p)
          /\ last' = Ret(TRUE, -1)
  /\ UNCHANGED <<pool_size, page_table, free_list, next_page_id, pins, lrukVars, bpiVars, extVars>>

\* BufferPoolManager::FlushAllPages
FlushAllPages ==
  /\ pages' = [f \in Frames |->
                 IF \E p \in DOMAIN page_table : page_table[p] % pool_size = f
                 THEN [pages[f] EXCEPT !.is_dirty_ = FALSE] ELSE pages[f]]
  /\ disk' = [p \in PageIds |->
                IF p \in DOMAIN page_table THEN pages[page_table[p] % pool_size].data_
                ELSE disk[p]]
  /\ last' = Ret(TRUE, -1)
  /\ UNCHANGED <<pool_size, page_table, free_list, next_page_id, pins, lrukVars, bpiVars, extVars>>

\* what DeletePage returns after it has freed the frame
DeleteResult == FALSE

\* BufferPoolManager::DeletePage
DeletePage(p) ==
  /\ IF p \notin DOMAIN page_table
     THEN /\ last' = Ret(TRUE, -1)
          /\ UNCHANGED <<pages, page_table, free_list>>
     ELSE LET f == page_table[p]
          IN IF pages[f % pool_size].pin_count_ > 0
             THEN /\ last' = Ret(FALSE, -1)
                  /\ UNCHANGED <<pages, page_table, free_list>>
             ELSE /\ Len(free_list) < MaxFree
                  /\ free_list' = Append(free_list, f)
                  /\ pages' = [pages EXCEPT ![f % pool_size] = EmptyPage]
                  /\ page_table' = Erase(page_table, p)
                  /\ last' = Ret(DeleteResult, -1)
  /\ UNCHANGED <<pool_size, next_page_id, disk, pins, lrukVars, bpiVars, extVars>>

\* the page ids a client fetches are ids NewPage has handed out
Allocated(p) == p < next_page_id

NextBPM ==
  \/ NewPage
  \/ \E p \in PageIds : Allocated(p) /\ FetchPage(p)
  \/ \E p \in PageIds, d \in BOOLEAN : UnpinPage(p, d)
  \/ \E p \in PageIds : DeletePage(p)
  \/ \E p \in PageIds : FlushPage(p)
  \/ FlushAllPages


\* ------------------------------- threads calling one BufferPoolManager
\* The pool has no latch of its own: a call is a sequence of steps, each a
\* statement (or a call made under a latch of the replacer or of a page), and
\* the steps of different threads interleave.
ThreadIds == 1 .. MaxThreads

\* a thread that is in no call
IdleThread == [pc |-> "idle", op |-> "none", page_id |-> -1, frame |-> -1, ub |-> FALSE]

\* the thread returns from its call
Returned(th) == [IdleThread EXCEPT !.ub = th.ub]

\* the thread enters a call
Entered(th, op, p) == [Returned(th) EXCEPT !.pc = "alloc", !.op = op, !.page_id = p]

ConcIdle == threads = [t \in ThreadIds |-> IdleThread] /\ started = 0

\* what the steps of a call leave alone
concRest == <<pool_size, default_evictable, set_unaccessed, history, bpiVars,
              lruVars, allocVars, guardVars, hashVars, unitVars>>

Crashed == \E t \in ThreadIds : threads[t].pc = "crashed"

\* some thread has made a call that was undefined
Undefined == \E t \in ThreadIds : threads[t].ub

\* NewPage is entered (line 36)
CNewPage(t) ==
  /\ ~Crashed
  /\ threads[t].pc = "idle"
  /\ next_page_id < MaxPages
  /\ started < MaxStarted
  /\ started' = started + 1
  /\ threads' = [threads EXCEPT ![t] = Entered(threads[t], "new", -1)]
  /\ last' = NoCall
  /\ UNCHANGED <<replacer, pages, page_table, free_list, next_page_id, disk, pins, concRest>>

\* FetchPage of a page id some NewPage has returned: page_table_.find(page_id)
\* finds nothing (line 64)
CFetchPage(t, p) ==
  /\ ~Crashed
  /\ threads[t].pc = "idle"
  /\ \A u \in ThreadIds : threads[u].op = "new" => threads[u].page_id # p
  /\ p \notin DOMAIN page_table
  /\ started < MaxStarted
  /\ started' = started + 1
  /\ threads' = [threads EXCEPT ![t] = Entered(threads[t], "fetch", p)]
  /\ last' = NoCall
  /\ UNCHANGED <<replacer, pages, page_table, free_list, next_page_id, disk, pins, concRest>>

\* AllocateNewFrame: free_list_.front() of a list that is not empty (lines
\* 188-189), or else Evict and the loop over the page table (lines 193-206)
CAlloc(t) ==
  /\ ~Crashed
  /\ threads[t].pc = "alloc"
  /\ UNCHANGED started
  /\ IF free_list # <<>>
     THEN /\ threads' = [threads EXCEPT ![t].pc = "pop", ![t].frame = Head(free_list)]
          /\ last' = NoCall
          /\ UNCHANGED <<replacer, pages, page_table, disk>>
     ELSE \E a \in AllocateNewFrame :
            /\ replacer' = a.replacer
            /\ pages' = a.pages
            /\ page_table' = a.page_table
            /\ disk' = a.disk
            /\ IF a.ok
               THEN /\ threads' = [threads EXCEPT ![t].pc = "meta", ![t].frame = a.frame]
                    /\ last' = NoCall
               ELSE /\ threads' = [threads EXCEPT ![t] = Returned(threads[t])]
                    /\ last' = Ret(FALSE, -1)
  /\ UNCHANGED <<free_list, next_page_id, pins, concRest>>

\* AllocateNewFrame: free_list_.pop_front() (line 190). On a list another
\* thread has emptied meanwhile the call is undefined: the program crashes, or
\* goes on with the list still empty.
CPop(t) ==
  /\ ~Crashed
  /\ threads[t].pc = "pop"
  /\ UNCHANGED started
  /\ IF free_list # <<>>
     THEN /\ free_list' = Tail(free_list)
          /\ threads' = [threads EXCEPT ![t].pc = "meta"]
     ELSE /\ UNCHANGED free_list
          /\ \E pc \in {"crashed", "meta"} :
               threads' = [threads EXCEPT ![t].pc = pc, ![t].ub = TRUE]
  /\ last' = NoCall
  /\ UNCHANGED <<replacer, pages, page_table, next_page_id, disk, pins, concRest>>

\* the frame's metadata is set under the page's latch (NewPage lines 43-53,
\* FetchPage lines 85-92)
CMeta(t) ==
  /\ ~Crashed
  /\ threads[t].pc = "meta"
  /\ UNCHANGED started
  /\ LET f == threads[t].frame
     IN IF threads[t].op = "new"
        THEN /\ next_page_id < MaxPages
             /\ next_page_id' = next_page_id + 1
             /\ pages' = [pages EXCEPT ![f % pool_size] =
                            [page_id_ |-> AllocatePage, pin_count_ |-> 1,
                             is_dirty_ |-> FALSE, data_ |-> 0]]
             /\ threads' = [threads EXCEPT ![t].pc = "pin", ![t].page_id = AllocatePage]
        ELSE /\ pages' = [pages EXCEPT ![f % pool_size] =
                            [page_id_ |-> threads[t].page_id, pin_count_ |-> 1,
                             is_dirty_ |-> FALSE, data_ |-> disk[threads[t].page_id]]]
             /\ threads' = [threads EXCEPT ![t].pc = "pin"]
             /\ UNCHANGED next_page_id
  /\ last' = NoCall
  /\ UNCHANGED <<replacer, page_table, free_list, disk, pins, concRest>>

\* replacer_->RecordAccess and replacer_->SetEvictable(frame_id, false)
\* (NewPage lines 56-57, FetchPage lines 95-96)
CPin(t) ==
  /\ ~Crashed
  /\ threads[t].pc = "pin"
  /\ UNCHANGED started
  /\ ReplacerInBounds(Touch(replacer, threads[t].frame, FALSE))
  /\ replacer' = Touch(replacer, threads[t].frame, FALSE)
  /\ threads' = [threads EXCEPT ![t].pc = "emplace"]
  /\ last' = NoCall
  /\ UNCHANGED <<pages, page_table, free_list, next_page_id, disk, pins, concRest>>

\* page_table_.emplace and the return of the page (NewPage lines 59-60,
\* FetchPage lines 98-99)
CEmplace(t) ==
  /\ ~Crashed
  /\ threads[t].pc = "emplace"
  /\ UNCHANGED started
  /\ pins[threads[t].page_id] < MaxPin
  /\ page_table' = Emplace(page_table, threads[t].page_id, threads[t].frame)
  /\ pins' = [pins EXCEPT ![threads[t].page_id] = @ + 1]
  /\ threads' = [threads EXCEPT ![t] = Returned(threads[t])]
  /\ last' = Ret(TRUE, threads[t].frame)
  /\ UNCHANGED <<replacer, pages, free_list, next_page_id, disk, concRest>>

\* the calls that are a single step: FetchPage of a resident page (its find,
\* the two replacer calls and the pin under the page latch), UnpinPage and
\* DeletePage
NextConc ==
  \/ \E t \in ThreadIds : CNewPage(t)
  \/ \E t \in ThreadIds, p \in PageIds : Allocated(p) /\ CFetchPage(t, p)
  \/ \E t \in ThreadIds : CAlloc(t)
  \/ \E t \in ThreadIds : CPop(t)
  \/ \E t \in ThreadIds : CMeta(t)
  \/ \E t \in ThreadIds : CPin(t)
  \/ \E t \in ThreadIds : CEmplace(t)
  \/ \E p \in PageIds : ~Crashed /\ Allocated(p) /\ FetchPageHit(p)
  \/ \E p \in PageIds, d \in BOOLEAN : ~Crashed /\ pins[p] > 0 /\ UnpinPage(p, d)
  \/ \E p \in PageIds : ~Crashed /\ Allocated(p) /\ DeletePage(p)

\* ============================================================= LRUReplacer
\* LRUReplacer::LRUReplacer(num_pages)
NewLRU(num_pages) == [pin_count_ |-> [i \in 0 .. num_pages |-> -1], candidates_ |-> <<>>]

\* candidates_.erase(std::find(begin, end, x)): the first occurrence, if any
EraseFirst(s, x) ==
  LET idx == {i \in 1 .. Len(s) : s[i] = x}
  IN IF idx = {} THEN s
     ELSE [i \in 1 .. (Len(s) - 1) |-> IF i < SetMin(idx) THEN s[i] ELSE s[i + 1]]

\* LRUReplacer::Victim: [ok, frame, l]
Victim(l) ==
  IF l.candidates_ = <<>>
  THEN [ok |-> FALSE, frame |-> -1, l |-> l]
  ELSE [ok |-> TRUE, frame |-> Head(l.candidates_),
        l |-> [l EXCEPT !.candidates_ = Tail(@)]]

\* LRUReplacer::Pin
Pin(l, f) ==
  IF l.pin_count_[f] >= 0
  THEN [l EXCEPT !.candidates_ = IF l.pin_count_[f] = 0 THEN EraseFirst(@, f) ELSE @,
                 !.pin_count_[f] = @ + 1]
  ELSE l

\* LRUReplacer::Unpin
Unpin(l, f) ==
  IF l.pin_count_[f] # 0
  THEN [l EXCEPT !.pin_count_[f] = 0, !.candidates_ = Append(@, f)]
  ELSE l

\* LRUReplacer::Size
LRUSize(l) == Len(l.candidates_)

\* ------------------------------------------ the replacer driven on its own
LRUIdle == lru_pins = [f \in FrameIds |-> 0]

\* what the calls on the LRUReplacer leave alone
lruRest == <<num_instances, instance_index, owed, lrukVars, bpmVars, allocVars, guardVars, hashVars, concVars,
             unitVars>>

DoPin(f) ==
  /\ lru_pins[f] < MaxPin
  /\ lru' = Pin(lru, f)
  /\ lru_pins' = [lru_pins EXCEPT ![f] = @ + 1]
  /\ last' = Ret(TRUE, -1)
  /\ UNCHANGED lruRest

DoUnpin(f) ==
  /\ lru' = Unpin(lru, f)
  /\ lru_pins' = [lru_pins EXCEPT ![f] = IF @ > 0 THEN @ - 1 ELSE 0]
  /\ last' = Ret(TRUE, -1)
  /\ UNCHANGED lruRest

DoVictim ==
  LET v == Victim(lru)
  IN /\ lru' = v.l
     /\ last' = Ret(v.ok, v.frame)
     /\ UNCHANGED <<lru_pins, lruRest>>

NextLRU ==
  \/ \E f \in FrameIds : DoPin(f)
  \/ \E f \in FrameIds : DoUnpin(f)
  \/ DoVictim

\* ================================================ BufferPoolManagerInstance
\* BufferPoolManagerInstance::BufferPoolManagerInstance(pool_size, disk_manager,
\* log_manager): a pool of one instance
BPIInit(n) ==
  /\ lru = NewLRU(n)
  /\ num_instances = 1
  /\ instance_index = 0
  /\ owed = {}

\* BufferPoolManagerInstance::FlushPgImp(p) on the disk, p resident in pt: the
\* page is written when it is dirty, and its dirty bit is left as it is
FlushPgDisk(pg, pt, dk, p) ==
  IF pg[pt[p] % pool_size].is_dirty_
  THEN [dk EXCEPT ![p] = pg[pt[p] % pool_size].data_]
  ELSE dk

\* BufferPoolManagerInstance::AllocateNewFrame: the set of its possible outcomes
\* [ok, frame, free_list, lru, page_table, disk, gone], gone the page whose
\* entry it erased (or -1)
BPIAllocateNewFrame ==
  LET same == [ok |-> FALSE, frame |-> -1, free_list |-> free_list, lru |-> lru,
               page_table |-> page_table, disk |-> disk, gone |-> -1]
      v == Victim(lru)
      owners == {p \in DOMAIN page_table : page_table[p] = v.frame}
  IN IF free_list # <<>>
     THEN {[same EXCEPT !.ok = TRUE, !.frame = Head(free_list), !.free_list = Tail(free_list)]}
     ELSE IF ~v.ok
     THEN {same}
     ELSE IF owners = {}
     THEN {[same EXCEPT !.ok = TRUE, !.frame = v.frame, !.lru = v.l]}
     ELSE {[same EXCEPT !.ok = TRUE, !.frame = v.frame, !.lru = v.l,
                        !.disk = FlushPgDisk(pages, page_table, disk, p),
                        !.page_table = Erase(page_table, p),
                        !.gone = p] : p \in owners}

\* the bound on the counters of the LRUReplacer
LRUInBounds(l) == \A f \in Frames : l.pin_count_[f] <= MaxPin

\* pages that are no longer owed a write: p was written by FlushPgImp
Written(pg, pt, p) == IF pg[pt[p] % pool_size].is_dirty_ THEN {p} ELSE {}

\* BufferPoolManagerInstance::NewPgImp
NewPgImp ==
  /\ next_page_id < MaxPages
  /\ next_page_id' = next_page_id + num_instances
  /\ \E a \in BPIAllocateNewFrame :
       IF ~a.ok
       THEN /\ last' = Ret(FALSE, -1)
            /\ UNCHANGED <<pool_size, pages, page_table, free_list, disk, pins, lrukVars, bpiVars, extVars>>
       ELSE LET pid == next_page_id
                f == a.frame
            IN /\ pins[pid] < MaxPin
               /\ LRUInBounds(Pin(a.lru, f))
               /\ pages' = [pages EXCEPT ![f % pool_size] =
                              [page_id_ |-> pid, pin_count_ |-> 1,
                               is_dirty_ |-> FALSE, data_ |-> 0]]
               /\ lru' = Pin(a.lru, f)
               /\ page_table' = Emplace(a.page_table, pid, f)
               /\ free_list' = a.free_list
               /\ disk' = a.disk
               /\ pins' = [pins EXCEPT ![pid] = @ + 1]
               /\ owed' = owed \ {pid, a.gone}
               /\ last' = Ret(TRUE, f)
               /\ UNCHANGED <<pool_size, num_instances, instance_index, lrukVars, extVars>>

\* BufferPoolManagerInstance::FetchPgImp, the page resident
FetchPgImpHit(p) ==
  /\ p \in DOMAIN page_table
  /\ LET f == page_table[p]
     IN /\ pages[f % pool_size].pin_count_ < MaxPin
        /\ pins[p] < MaxPin
        /\ LRUInBounds(Pin(lru, f))
        /\ lru' = Pin(lru, f)
        /\ pages' = [pages EXCEPT ![f % pool_size].pin_count_ = @ + 1]
        /\ pins' = [pins EXCEPT ![p] = @ + 1]
        /\ last' = Ret(TRUE, f)
        /\ UNCHANGED <<pool_size, page_table, free_list, next_page_id, disk,
                       num_instances, instance_index, owed, lrukVars, extVars>>

\* BufferPoolManagerInstance::FetchPgImp, the page not resident
FetchPgImpMiss(p) ==
  /\ p \notin DOMAIN page_table
  /\ \E a \in BPIAllocateNewFrame :
       IF ~a.ok
       THEN /\ last' = Ret(FALSE, -1)
            /\ UNCHANGED <<lrukVars, bpmVars, bpiVars, extVars>>
       ELSE LET f == a.frame
            IN /\ pins[p] < MaxPin
               /\ LRUInBounds(Pin(a.lru, f))
               /\ pages' = [pages EXCEPT ![f % pool_size] =
                              [page_id_ |-> p, pin_count_ |-> 1,
                               is_dirty_ |-> FALSE, data_ |-> a.disk[p]]]
               /\ lru' = Pin(a.lru, f)
               /\ page_table' = Emplace(a.page_table, p, f)
               /\ free_list' = a.free_list
               /\ disk' = a.disk
               /\ pins' = [pins EXCEPT ![p] = @ + 1]
               /\ owed' = owed \ {p, a.gone}
               /\ last' = Ret(TRUE, f)
               /\ UNCHANGED <<pool_size, next_page_id, num_instances, instance_index, lrukVars, extVars>>

FetchPgImp(p) == FetchPgImpHit(p) \/ FetchPgImpMiss(p)

\* what UnpinPgImp stores in is_dirty_
UnpinPgDirty(old, is_dirty) == is_dirty

\* BufferPoolManagerInstance::UnpinPgImp
UnpinPgImp(p, is_dirty) ==
  LET pt == Indexed(page_table, p)
      f == pt[p]
  IN /\ page_table' = pt
     /\ IF pages[f % pool_size].pin_count_ <= 0
        THEN /\ last' = Ret(FALSE, -1)
             /\ UNCHANGED <<pages, lru, pins, owed>>
        ELSE /\ pages' = [pages EXCEPT ![f % pool_size].is_dirty_ = UnpinPgDirty(@, is_dirty)]
             /\ lru' = Unpin(lru, f)
             /\ pins' = [pins EXCEPT ![p] = IF @ > 0 THEN @ - 1 ELSE 0]
             /\ owed' = IF is_dirty /\ pages[f % pool_size].page_id_ = p
                        THEN owed \cup {p} ELSE owed
             /\ last' = Ret(TRUE, -1)
     /\ UNCHANGED <<pool_size, free_list, next_page_id, disk, num_instances, instance_index, lrukVars, extVars>>

\* BufferPoolManagerInstance::FlushPgImp
FlushPgImp(p) ==
  /\ IF p \notin DOMAIN page_table
     THEN /\ last' = Ret(FALSE, -1)
          /\ UNCHANGED <<disk, owed>>
     ELSE /\ disk' = FlushPgDisk(pages, page_table, disk, p)
          /\ owed' = owed \ Written(pages, page_table, p)
          /\ last' = Ret(TRUE, -1)
  /\ UNCHANGED <<pool_size, pages, page_table, free_list, next_page_id, pins,
                 lru, num_instances, instance_index, lrukVars, extVars>>

\* BufferPoolManagerInstance::FlushAllPgsImp
FlushAllPgsImp ==
  /\ disk' = [p \in PageIds |->
                IF p \in DOMAIN page_table THEN FlushPgDisk(pages, page_table, disk, p)[p]
                ELSE disk[p]]
  /\ owed' = owed \ {p \in DOMAIN page_table : Written(pages, page_table, p) # {}}
  /\ last' = Ret(TRUE, -1)
  /\ UNCHANGED <<pool_size, pages, page_table, free_list, next_page_id, pins,
                 lru, num_instances, instance_index, lrukVars, extVars>>

\* BufferPoolManagerInstance::DeletePgImp
DeletePgImp(p) ==
  /\ IF p \notin DOMAIN page_table
     THEN /\ last' = Ret(TRUE, -1)
          /\ UNCHANGED <<pages, page_table, free_list, owed>>
     ELSE LET f == page_table[p]
          IN IF pages[f % pool_size].pin_count_ > 0
             THEN /\ last' = Ret(FALSE, -1)
                  /\ UNCHANGED <<pages, page_table, free_list, owed>>
             ELSE /\ Len(free_list) < MaxFree
                  /\ free_list' = Append(free_list, f)
                  /\ pages' = [pages EXCEPT ![f % pool_size] = EmptyPage]
                  /\ page_table' = Erase(page_table, p)
                  /\ owed' = owed \ {p}
                  /\ last' = Ret(FALSE, -1)
  /\ UNCHANGED <<pool_size, next_page_id, disk, pins, lru, num_instances, instance_index, lrukVars, extVars>>

\* a client that holds a pin on p writes into the page it was handed
WritePg(p, v) ==
  /\ p \in DOMAIN page_table
  /\ pins[p] > 0
  /\ pages[page_table[p] % pool_size].data_ # v
  /\ pages' = [pages EXCEPT ![page_table[p] % pool_size].data_ = v]
  /\ owed' = owed \ {p}
  /\ UNCHANGED <<pool_size, page_table, free_list, next_page_id, disk, pins, lrukVars, extVars, last>>
  /\ UNCHANGED <<lru, num_instances, instance_index>>

NextBPI ==
  \/ NewPgImp
  \/ \E p \in PageIds : Allocated(p) /\ FetchPgImp(p)
  \/ \E p \in PageIds, d \in BOOLEAN : pins[p] > 0 /\ UnpinPgImp(p, d)
  \/ \E p \in PageIds : FlushPgImp(p)
  \/ FlushAllPgsImp
  \/ \E p \in PageIds : DeletePgImp(p)
  \/ \E p \in PageIds, v \in Data : WritePg(p, v)

\* --------------------------------------- the page ids of a parallel pool
\* AllocatePage with line 181 adding 1 instead of num_instances_
BPIAllocatePageByOne(next, n) == [page_id |-> next, next_page_id_ |-> next + 1]

\* BufferPoolManagerInstance::AllocatePage on an instance whose counter is
\* next and whose pool has n instances: [page_id, next_page_id_]. (The ids
\* stay far below the width of page_id_t; the addition is not wrapped.)
BPIAllocatePage(next, n) == [page_id |-> next, next_page_id_ |-> next + n]

\* BufferPoolManagerInstance::ValidatePageId: the condition it asserts
ValidatePageId(page_id, n, idx) == page_id % n = idx

\* no other instance
NoPeer == [instance_index_ |-> -1, next_page_id_ |-> -1]

AllocIdle == peer = NoPeer /\ ids = <<>> /\ peer_ids = <<>>

\* BufferPoolManagerInstance::BufferPoolManagerInstance(pool_size,
\* num_instances, instance_index, ...), twice for one pool of n instances
\* (once when the pool has a single instance); its two assertions hold
BPIPoolInit(n) ==
  /\ lru = NewLRU(BPIPoolSize)
  /\ owed = {}
  /\ num_instances = n
  /\ instance_index \in 0 .. (n - 1)
  /\ next_page_id = instance_index
  /\ \/ n = 1 /\ peer = NoPeer
     \/ \E j \in (0 .. (n - 1)) \ {instance_index} :
          peer = [instance_index_ |-> j, next_page_id_ |-> j]
  /\ ids = <<>>
  /\ peer_ids = <<>>

\* what AllocatePage leaves alone
allocRest == <<pool_size, pages, page_table, free_list, disk, pins, lru, owed,
               num_instances, instance_index, lrukVars, lruVars, guardVars, hashVars, concVars,
               unitVars>>

DoAllocatePage ==
  LET a == BPIAllocatePage(next_page_id, num_instances)
  IN /\ Len(ids) < MaxIds
     /\ next_page_id' = a.next_page_id_
     /\ ids' = Append(ids, a.page_id)
     /\ last' = Ret(ValidatePageId(a.page_id, num_instances, instance_index), -1)
     /\ UNCHANGED <<peer, peer_ids, allocRest>>

DoPeerAllocatePage ==
  LET a == BPIAllocatePage(peer.next_page_id_, num_instances)
  IN /\ peer # NoPeer
     /\ Len(peer_ids) < MaxIds
     /\ peer' = [peer EXCEPT !.next_page_id_ = a.next_page_id_]
     /\ peer_ids' = Append(peer_ids, a.page_id)
     /\ last' = Ret(ValidatePageId(a.page_id, num_instances, peer.instance_index_), -1)
     /\ UNCHANGED <<next_page_id, ids, allocRest>>

NextAlloc ==
  \/ DoAllocatePage
  \/ DoPeerAllocatePage

\* ============================================================ BasicPageGuard
GuardIds == 1 .. MaxGuards

\* a guard that points to nothing
NullGuard(state) == [state |-> state, bpm_ |-> FALSE, page_ |-> -1, is_dirty_ |-> FALSE]

\* BasicPageGuard(bpm, page) for page p (declared in the header)
HoldingGuard(p) == [state |-> "live", bpm_ |-> TRUE, page_ |-> p, is_dirty_ |-> FALSE]

GuardIdle ==
  /\ guards = [g \in GuardIds |-> NullGuard("free")]
  /\ bpm_calls = <<>>
  /\ guard_ub = "none"

\* guard g holds page g - 1 for g up to GuardPages; the other objects are not built yet
GuardInit ==
  /\ guards = [g \in GuardIds |-> IF g <= GuardPages THEN HoldingGuard(g - 1)
                                   ELSE NullGuard("free")]
  /\ bpm_calls = <<>>
  /\ guard_ub = "none"

Call(op, p, d) == [op |-> op, page_id |-> p, is_dirty |-> d]

\* BasicPageGuard::Drop on a guard whose page_ points to page p, which is
\* dirty or not: the calls it makes on bpm_. It leaves the guard as it is.
Drop(p, dirty) ==
  IF dirty
  THEN <<Call("FlushPage", p, FALSE), Call("UnpinPage", p, dirty)>>
  ELSE <<Call("UnpinPage", p, dirty)>>

\* what the guards leave alone
guardRest == <<lrukVars, bpmVars, bpiVars, lruVars, allocVars, hashVars, concVars, unitVars>>

\* g.Drop(). With page_ null, page_->IsDirty() dereferences a null pointer:
\* the program crashes, or goes on after a call with a page id read from
\* wherever the null pointer led.
GuardDrop(g) ==
  /\ guards[g].state = "live"
  /\ guard_ub # "crashed"
  /\ IF guards[g].page_ # -1
     THEN /\ \E dirty \in BOOLEAN :
               /\ Len(bpm_calls) + Len(Drop(guards[g].page_, dirty)) <= MaxCalls
               /\ bpm_calls' = bpm_calls \o Drop(guards[g].page_, dirty)
          /\ UNCHANGED guard_ub
     ELSE \/ guard_ub' = "crashed" /\ UNCHANGED bpm_calls
          \/ /\ guard_ub' = "garbage"
             /\ \E p \in 0 .. (GuardPages - 1), dirty \in BOOLEAN :
                  /\ Len(bpm_calls) + Len(Drop(p, dirty)) <= MaxCalls
                  /\ bpm_calls' = bpm_calls \o Drop(p, dirty)
  /\ last' = Ret(TRUE, -1)
  /\ UNCHANGED <<guards, guardRest>>

\* BasicPageGuard::~BasicPageGuard
GuardDestroy(g) ==
  /\ guards[g].state = "live"
  /\ guard_ub # "crashed"
  /\ IF guards[g].page_ # -1
     THEN \E dirty \in BOOLEAN :
            /\ Len(bpm_calls) + Len(Drop(guards[g].page_, dirty)) <= MaxCalls
            /\ bpm_calls' = bpm_calls \o Drop(guards[g].page_, dirty)
     ELSE UNCHANGED bpm_calls
  /\ guards' = [guards EXCEPT ![g].state = "dead"]
  /\ last' = Ret(TRUE, -1)
  /\ UNCHANGED <<guard_ub, guardRest>>

\* BasicPageGuard::BasicPageGuard(BasicPageGuard &&that): h is built from g
GuardMove(h, g) ==
  /\ guards[g].state = "live"
  /\ guards[h].state = "free"
  /\ guard_ub # "crashed"
  /\ guards' = [guards EXCEPT ![h] = [guards[g] EXCEPT !.state = "live"],
                              ![g] = NullGuard("live")]
  /\ last' = Ret(TRUE, -1)
  /\ UNCHANGED <<bpm_calls, guard_ub, guardRest>>

\* BasicPageGuard::operator=(BasicPageGuard &&that): h = std::move(g)
GuardMoveAssign(h, g) ==
  /\ g # h
  /\ guards[g].state = "live"
  /\ guards[h].state = "live"
  /\ guard_ub # "crashed"
  /\ guards' = [guards EXCEPT ![h] = guards[g], ![g] = NullGuard("live")]
  /\ last' = Ret(TRUE, -1)
  /\ UNCHANGED <<bpm_calls, guard_ub, guardRest>>

NextGuard ==
  \/ \E g \in GuardIds : GuardDrop(g)
  \/ \E g \in GuardIds : GuardDestroy(g)
  \/ \E h, g \in GuardIds : GuardMove(h, g)
  \/ \E h, g \in GuardIds : GuardMoveAssign(h, g)

\* =================================================== DiskExtendibleHashTable
HTKeys == 0 .. MaxKey
HTValues == 0 .. MaxValue
DirIndexes == 0 .. (2 ^ MaxDepth - 1)
Slots == 0 .. (BucketSize - 1)

\* a bucket page after Page::ResetMemory: all its bytes are zero
ZeroBucket ==
  [size_ |-> 0, taken_ |-> 0, free_ |-> 0, readable_ |-> {}, occupied_ |-> {},
   array_ |-> [i \in Slots |-> <<0, 0>>]]

\* HashTableBucketPage::IsReadable: the masked byte is compared with 1, so a
\* set bit is seen only at the slots whose mask is 1
IsReadable(b, i) == i \in b.readable_ /\ i % 8 = 0

\* HashTableBucketPage::GetValue: the values it pushes to *result, in order
BucketGetValue(b, key) ==
  LET hits == {i \in Slots : i < b.size_ /\ IsReadable(b, i) /\ b.array_[i][1] = key}
      Collect[n \in 0 .. BucketSize] ==
        IF n = 0 THEN <<>>
        ELSE IF (n - 1) \in hits THEN Append(Collect[n - 1], b.array_[n - 1][2])
        ELSE Collect[n - 1]
  IN Collect[BucketSize]

\* HashTableBucketPage::RemoveAt
RemoveAt(b, i) ==
  [b EXCEPT !.taken_ = @ - 1, !.free_ = @ + 1, !.readable_ = @ \ {i}]

\* HashTableBucketPage::Remove: [ok, b]
BucketRemove(b, key, value) ==
  LET hits == {i \in Slots : /\ i < b.size_ /\ IsReadable(b, i)
                              /\ b.array_[i] = <<key, value>>}
  IN IF hits # {}
     THEN [ok |-> TRUE, b |-> RemoveAt(b, SetMin(hits))]
     ELSE [ok |-> FALSE, b |-> b]

\* HashTableBucketPage::IsEmpty
IsEmpty(b) == b.taken_ = 0

\* HashTableDirectoryPage::GetGlobalDepthMask (declared outside this source)
GetGlobalDepthMask(t) == 2 ^ t.global_depth - 1

\* DiskExtendibleHashTable::Hash
Hash(key) == hash_fn[key]

\* DiskExtendibleHashTable::KeyToDirectoryIndex (h & mask, mask = 2^d - 1)
KeyToDirectoryIndex(t, key) == Hash(key) % (GetGlobalDepthMask(t) + 1)

\* DiskExtendibleHashTable::KeyToPageId
KeyToPageId(t, key) == t.bucket_page_ids[KeyToDirectoryIndex(t, key)]

\* what reading a page that is not a bucket page of the table as a bucket page
\* may yield: its bytes are not a bucket's
ForeignBuckets ==
  {ZeroBucket,
   [ZeroBucket EXCEPT !.size_ = 1, !.taken_ = 1, !.readable_ = {0}, !.occupied_ = {0}]}

\* DiskExtendibleHashTable::FetchBucketPage: the contents it may find
FetchBucketPage(t, bucket_page_id) ==
  IF bucket_page_id \in DOMAIN t.buckets
  THEN {t.buckets[bucket_page_id]}
  ELSE ForeignBuckets

\* DiskExtendibleHashTable::DiskExtendibleHashTable, the two NewPage calls
\* returning the page ids first and first + 1 and zeroed pages
NewHashTable(first) ==
  [directory_page_id_ |-> first,
   global_depth |-> 1,
   local_depths |-> [i \in DirIndexes |-> IF i = 0 THEN 1 ELSE 0],
   bucket_page_ids |-> [i \in DirIndexes |-> IF i = 0 THEN first + 1 ELSE 0],
   buckets |-> Put(EmptyMap, first + 1, ZeroBucket)]

\* no hash table
HashIdle ==
  /\ ht = NewHashTable(0)
  /\ hash_fn = [key \in HTKeys |-> 0]
  /\ ht_ops = <<>>

HashInit ==
  /\ \E first \in 0 .. MaxFirstPage : ht = NewHashTable(first)
  /\ hash_fn \in [HTKeys -> 0 .. MaxHash]
  /\ ht_ops = <<>>

\* a call and what it returned: ok the returned bool, result the values
\* GetValue pushed
Op(op, key, value, ok, result) ==
  [op |-> op, key |-> key, value |-> value, ok |-> ok, result |-> result]

\* what the calls on the hash table leave alone
hashRest == <<lrukVars, bpmVars, bpiVars, lruVars, allocVars, guardVars, concVars, unitVars>>

\* DiskExtendibleHashTable::Insert
HTInsert(key, value) ==
  /\ Len(ht_ops) < MaxOps
  /\ ht_ops' = Append(ht_ops, Op("Insert", key, value, FALSE, <<>>))
  /\ last' = Ret(FALSE, -1)
  /\ UNCHANGED <<ht, hash_fn, hashRest>>

\* DiskExtendibleHashTable::GetValue. HashTableBucketPage::GetValue flows off
\* its end without a return statement: the bool it returns is any value.
HTGetValue(key) ==
  /\ Len(ht_ops) < MaxOps
  /\ \E b \in FetchBucketPage(ht, KeyToPageId(ht, key)), ok \in BOOLEAN :
       /\ ht_ops' = Append(ht_ops, Op("GetValue", key, 0, ok, BucketGetValue(b, key)))
       /\ last' = Ret(ok, -1)
  /\ UNCHANGED <<ht, hash_fn, hashRest>>

\* DiskExtendibleHashTable::Merge
Merge(t, key, value) == t

\* DiskExtendibleHashTable::Remove
HTRemove(key, value) ==
  /\ Len(ht_ops) < MaxOps
  /\ LET id == KeyToPageId(ht, key)
     IN \E b \in FetchBucketPage(ht, id) :
          LET r == BucketRemove(b, key, value)
              t == IF id \in DOMAIN ht.buckets
                   THEN [ht EXCEPT !.buckets[id] = r.b]
                   ELSE ht
          IN /\ ht' = IF IsEmpty(r.b) THEN Merge(t, key, value) ELSE t
             /\ ht_ops' = Append(ht_ops, Op("Remove", key, value, r.ok, <<>>))
             /\ last' = Ret(r.ok, -1)
  /\ UNCHANGED <<hash_fn, hashRest>>

NextHash ==
  \/ \E key \in HTKeys, value \in HTValues : HTInsert(key, value)
  \/ \E key \in HTKeys : HTGetValue(key)
  \/ \E key \in HTKeys, value \in HTValues : HTRemove(key, value)

\* ======================================================= HashTableBucketPage
\* a bucket page on its own, under Insert and Remove (GetValue, RemoveAt,
\* Remove, IsReadable and IsEmpty are with the hash table above). BucketSize
\* stands for BUCKET_ARRAY_SIZE. free_ is a uint32_t: the model holds the
\* signed reading of its 32 bits, so that 0 - 1 is -1 for 0xFFFFFFFF.
BucketIdle == bucket = ZeroBucket /\ bucket_ops = <<>>

\* HashTableBucketPage::SetOccupied (not defined in this source)
SetOccupied(b, i) == [b EXCEPT !.occupied_ = @ \cup {i}]

\* HashTableBucketPage::SetReadable: its body is empty
SetReadable(b, i) == b

\* HashTableBucketPage::IsFull
IsFull(b) == b.taken_ = BucketSize

\* HashTableBucketPage::Insert: [returns, slot, b]. returns tells whether the
\* call reached a return statement; slot is the index of array_ it wrote, -1
\* when it wrote none. A slot outside array_ is a write past the page.
BucketInsert(b, key, value) ==
  LET scanned == {i \in Slots : i < b.size_}
      duplicate == \E i \in scanned : IsReadable(b, i) /\ b.array_[i] = <<key, value>>
      vacant == {i \in scanned : ~IsReadable(b, i)}
      earliest_vacant == IF vacant = {} THEN b.size_ ELSE SetMin(vacant)
      grown == IF earliest_vacant = b.size_
               THEN [SetOccupied(b, earliest_vacant) EXCEPT !.size_ = @ + 1]
               ELSE [b EXCEPT !.free_ = @ - 1]
      taken == [SetReadable(grown, earliest_vacant) EXCEPT !.taken_ = @ + 1]
  IN IF duplicate
     THEN [returns |-> TRUE, slot |-> -1, b |-> b]
     ELSE [returns |-> FALSE, slot |-> earliest_vacant,
           b |-> IF earliest_vacant \in Slots
                 THEN [taken EXCEPT !.array_[earliest_vacant] = <<key, value>>]
                 ELSE taken]

BucketOp(op, key, value, ok, slot) ==
  [op |-> op, key |-> key, value |-> value, ok |-> ok, slot |-> slot]

\* what the bucket page leaves alone
bucketRest == <<lrukVars, bpmVars, bpiVars, lruVars, allocVars, guardVars, hashVars, concVars,
                clockVars, latchedVars, lruConcVars>>

\* Insert(key, value, cmp). The call returns false at a duplicate; otherwise
\* control flows off the end of a function that returns bool, and the caller
\* reads any value.
DoBucketInsert(key, value) ==
  LET r == BucketInsert(bucket, key, value)
  IN /\ Len(bucket_ops) < MaxBucketOps
     /\ bucket' = r.b
     /\ \E ok \in BOOLEAN :
          /\ r.returns => ~ok
          /\ bucket_ops' = Append(bucket_ops, BucketOp("Insert", key, value, ok, r.slot))
          /\ last' = Ret(ok, -1)
     /\ UNCHANGED bucketRest

\* Remove(key, value, cmp)
DoBucketRemove(key, value) ==
  LET r == BucketRemove(bucket, key, value)
  IN /\ Len(bucket_ops) < MaxBucketOps
     /\ bucket' = r.b
     /\ bucket_ops' = Append(bucket_ops, BucketOp("Remove", key, value, r.ok, -1))
     /\ last' = Ret(r.ok, -1)
     /\ UNCHANGED bucketRest

NextBucket ==
  \/ \E key \in HTKeys, value \in HTValues : DoBucketInsert(key, value)
  \/ \E key \in HTKeys, value \in HTValues : DoBucketRemove(key, value)

\* ============================================================= ClockReplacer
\* ClockReplacer::ClockReplacer(num_pages): state_ has num_pages + 1 entries
NewClock(num_pages) ==
  [clock_hand_ |-> 1, unpinned_counter_ |-> 0, num_pages_ |-> num_pages,
   state_ |-> [i \in 0 .. num_pages |-> "OUT"]]

ClockIdle == clock = NewClock(1) /\ victim_pc = "idle"

\* the frame ids a pool of num_pages_ frames passes to its replacer
ClockFrames == 0 .. (clock.num_pages_ - 1)

\* ClockReplacer::UpdateClockHand
UpdateClockHand(c) ==
  [c EXCEPT !.clock_hand_ = IF @ + 1 > c.num_pages_ THEN 1 ELSE @ + 1]

\* ClockReplacer::Pin
ClockPin(c, f) ==
  [c EXCEPT !.unpinned_counter_ = IF c.state_[f] \in {"READY", "REFERENCED"} THEN @ - 1 ELSE @,
            !.state_[f] = "PINNED"]

\* ClockReplacer::Unpin: the second test reads the state the first branch left
ClockUnpin(c, f) ==
  IF c.state_[f] = "OUT"
  THEN [c EXCEPT !.unpinned_counter_ = @ + 1, !.state_[f] = "READY"]
  ELSE IF c.state_[f] = "PINNED"
  THEN [c EXCEPT !.unpinned_counter_ = @ + 1, !.state_[f] = "REFERENCED"]
  ELSE c

\* ClockReplacer::Size
ClockSize(c) == c.unpinned_counter_

\* what the clock replacer leaves alone
clockRest == <<lrukVars, bpmVars, bpiVars, lruVars, allocVars, guardVars, hashVars, concVars,
               bucketVars, latchedVars, lruConcVars>>

\* Pin(f), between two Victim calls
DoClockPin(f) ==
  /\ victim_pc = "idle"
  /\ clock' = ClockPin(clock, f)
  /\ last' = Ret(TRUE, -1)
  /\ UNCHANGED <<victim_pc, clockRest>>

\* Unpin(f), between two Victim calls
DoClockUnpin(f) ==
  /\ victim_pc = "idle"
  /\ clock' = ClockUnpin(clock, f)
  /\ last' = Ret(TRUE, -1)
  /\ UNCHANGED <<victim_pc, clockRest>>

\* Victim is entered: it returns false at once when unpinned_counter_ is 0,
\* and goes to its while loop otherwise
VictimEnter ==
  /\ victim_pc = "idle"
  /\ IF ClockSize(clock) = 0
     THEN last' = Ret(FALSE, -1) /\ UNCHANGED victim_pc
     ELSE victim_pc' = "sweep" /\ last' = NoCall
  /\ UNCHANGED <<clock, clockRest>>

\* one round of the while loop of Victim: the hand is not on a READY entry
VictimSweep ==
  /\ victim_pc = "sweep"
  /\ clock.state_[clock.clock_hand_] # "READY"
  /\ clock' = UpdateClockHand(
                 IF clock.state_[clock.clock_hand_] = "REFERENCED"
                 THEN [clock EXCEPT !.state_[clock.clock_hand_] = "READY"]
                 ELSE clock)
  /\ UNCHANGED <<victim_pc, last, clockRest>>

\* the loop of Victim ends: the hand is on a READY entry, which is the victim
VictimTake ==
  /\ victim_pc = "sweep"
  /\ clock.state_[clock.clock_hand_] = "READY"
  /\ clock' = UpdateClockHand(
                 [clock EXCEPT !.state_[clock.clock_hand_] = "OUT",
                               !.unpinned_counter_ = @ - 1])
  /\ last' = Ret(TRUE, clock.clock_hand_)
  /\ victim_pc' = "idle"
  /\ UNCHANGED clockRest

NextClock ==
  \/ \E f \in ClockFrames : DoClockPin(f)
  \/ \E f \in ClockFrames : DoClockUnpin(f)
  \/ VictimEnter
  \/ VictimSweep
  \/ VictimTake

\* ------------------------------------ threads calling one LRUKReplacer
\* Every method but Size takes latch_ in its first statement and gives it back
\* before each return. A call is the steps: entered, latch taken, body, and
\* for Evict the scan of the lists and then the removal of the frame found.
NoFound == [frame |-> -1, list |-> "none"]

IdleCaller ==
  [pc |-> "idle", op |-> "none", frame |-> -1, flag |-> FALSE, found |-> NoFound,
   ret |-> NoCall, expect |-> NoCall]

LatchedIdle ==
  /\ latch_ = 0
  /\ callers = [t \in ThreadIds |-> IdleCaller]
  /\ serial = [r |-> NewReplacer(1), calls |-> 0]

\* replacer r after RecordAccess(0), ..., RecordAccess(n - 1)
RECURSIVE AccessedOnce(_, _)
AccessedOnce(r, n) == IF n = 0 THEN r ELSE RecordAccess(AccessedOnce(r, n - 1), n - 1)

\* the replacer the threads share: new, or with one access to every frame
\* made before the threads start; its k and the node default open
LatchedInit ==
  /\ default_evictable \in BOOLEAN
  /\ set_unaccessed = FALSE
  /\ history = <<>>
  /\ \E k \in 1 .. MaxK, n \in {0, PoolSize} : replacer = AccessedOnce(NewReplacer(k), n)
  /\ latch_ = 0
  /\ callers = [t \in ThreadIds |-> IdleCaller]
  /\ serial = [r |-> replacer, calls |-> 0]

\* a mutex that no thread holds (the type of latch_ is declared in the header)
LatchFree(l) == l = 0

\* latch_.lock() by thread t, without the lock: the latch stays as it is
LockSkipped(l, t) == l

\* latch_.lock() by thread t, once the latch is free
Lock(l, t) == t

\* latch_.unlock()
Unlock(l) == 0

\* the loops of Evict up to the frame they stop at: [frame, list]
EvictScan(r) ==
  LET c == FirstEvictable(r, r.candidates_)
      ck == FirstEvictable(r, r.candidates_k_)
  IN IF c # -1 THEN [frame |-> c, list |-> "candidates_"]
     ELSE IF ck # -1 THEN [frame |-> ck, list |-> "candidates_k_"]
     ELSE NoFound

\* Evict, lines 27-29 and 39-41: the frame found leaves its list and node_store_
EvictErase(r, found) ==
  [r EXCEPT !.candidates_ = IF found.list = "candidates_" THEN ListRemove(@, found.frame) ELSE @,
            !.candidates_k_ = IF found.list = "candidates_k_" THEN ListRemove(@, found.frame) ELSE @,
            !.node_store_ = Erase(@, found.frame),
            !.replacer_size_ = @ - 1]

\* the call op(f, b) run alone on replacer r: [ok, frame, r]
Alone(r, op, f, b) ==
  CASE op = "Evict" -> Evict(r)
    [] op = "RecordAccess" -> [ok |-> TRUE, frame |-> -1, r |-> RecordAccess(r, f)]
    [] op = "SetEvictable" -> [ok |-> TRUE, frame |-> -1, r |-> SetEvictable(r, f, b)]
    [] op = "Remove" -> [ok |-> TRUE, frame |-> -1, r |-> Remove(r, f)]

\* what the calls of the threads leave alone
latchedRest == <<default_evictable, set_unaccessed, history, bpmVars, bpiVars, lruVars, allocVars,
                 guardVars, hashVars, concVars, bucketVars, clockVars, lruConcVars>>

\* thread t enters op(f, b)
KCall(t, op, f, b) ==
  /\ callers[t].pc = "idle"
  /\ serial.calls < MaxLatchedCalls
  /\ serial' = [serial EXCEPT !.calls = @ + 1]
  /\ callers' = [callers EXCEPT ![t] = [IdleCaller EXCEPT !.pc = "lock", !.op = op,
                                                         !.frame = f, !.flag = b]]
  /\ last' = NoCall
  /\ UNCHANGED <<replacer, latch_, latchedRest>>

\* latch_.lock() returns to thread t. The calls take effect in the order they
\* take the latch: serial runs the whole call here.
KLock(t) ==
  /\ callers[t].pc = "lock"
  /\ LatchFree(latch_)
  /\ LET a == Alone(serial.r, callers[t].op, callers[t].frame, callers[t].flag)
     IN /\ ReplacerInBounds(a.r)
        /\ serial' = [serial EXCEPT !.r = a.r]
        /\ callers' = [callers EXCEPT ![t].pc = "body", ![t].expect = Ret(a.ok, a.frame)]
  /\ latch_' = Lock(latch_, t)
  /\ UNCHANGED <<replacer, last, latchedRest>>

\* the thread unlocks and returns ret
KReturn(t, ret) ==
  /\ latch_' = Unlock(latch_)
  /\ callers' = [callers EXCEPT ![t].pc = "idle", ![t].ret = ret]
  /\ last' = ret

\* RecordAccess, lines 53-74
KRecordAccess(t) ==
  /\ callers[t].pc = "body" /\ callers[t].op = "RecordAccess"
  /\ replacer' = RecordAccess(replacer, callers[t].frame)
  /\ KReturn(t, Ret(TRUE, -1))
  /\ UNCHANGED <<serial, latchedRest>>

\* SetEvictable, lines 79-84
KSetEvictable(t) ==
  /\ callers[t].pc = "body" /\ callers[t].op = "SetEvictable"
  /\ replacer' = SetEvictable(replacer, callers[t].frame, callers[t].flag)
  /\ KReturn(t, Ret(TRUE, -1))
  /\ UNCHANGED <<serial, latchedRest>>

\* Remove, lines 90-91
KRemove(t) ==
  /\ callers[t].pc = "body" /\ callers[t].op = "Remove"
  /\ replacer' = Remove(replacer, callers[t].frame)
  /\ KReturn(t, Ret(TRUE, -1))
  /\ UNCHANGED <<serial, latchedRest>>

\* Evict, the two loops: they stop at an evictable frame, or end and the call
\* returns false (lines 24-25, 36-37, 46-47)
KEvictScan(t) ==
  /\ callers[t].pc = "body" /\ callers[t].op = "Evict"
  /\ IF EvictScan(replacer) = NoFound
     THEN KReturn(t, Ret(FALSE, -1))
     ELSE /\ callers' = [callers EXCEPT ![t].pc = "erase", ![t].found = EvictScan(replacer)]
          /\ UNCHANGED <<latch_, last>>
  /\ UNCHANGED <<replacer, serial, latchedRest>>

\* Evict, the frame found is removed and returned (lines 26-31, 38-43)
KEvictErase(t) ==
  /\ callers[t].pc = "erase"
  /\ replacer' = EvictErase(replacer, callers[t].found)
  /\ KReturn(t, Ret(TRUE, callers[t].found.frame))
  /\ UNCHANGED <<serial, latchedRest>>

NextLatched ==
  \/ \E t \in ThreadIds, f \in FrameIds : KCall(t, "RecordAccess", f, FALSE)
  \/ \E t \in ThreadIds, f \in FrameIds, b \in BOOLEAN : KCall(t, "SetEvictable", f, b)
  \/ \E t \in ThreadIds : KCall(t, "Evict", -1, FALSE)
  \/ \E t \in ThreadIds, f \in FrameIds : KCall(t, "Remove", f, FALSE)
  \/ \E t \in ThreadIds : KLock(t)
  \/ \E t \in ThreadIds : KRecordAccess(t)
  \/ \E t \in ThreadIds : KSetEvictable(t)
  \/ \E t \in ThreadIds : KRemove(t)
  \/ \E t \in ThreadIds : KEvictScan(t)
  \/ \E t \in ThreadIds : KEvictErase(t)

\* ------------------------------------- threads calling one LRUReplacer
\* Victim tests candidates_.empty() before it takes latch_; Pin and Unpin run
\* under latch_ from their first statement to their last.
LRUCaller(pc, frame, ub) == [pc |-> pc, frame |-> frame, ub |-> ub]

LRUConcIdle ==
  /\ lru_latch = 0
  /\ lru_callers = [t \in ThreadIds |-> LRUCaller("idle", -1, FALSE)]

\* what the calls of the threads leave alone
lruConcRest == <<num_instances, instance_index, owed, lrukVars, bpmVars, lruVars, allocVars,
                 guardVars, hashVars, concVars, bucketVars, clockVars, latchedVars>>

LRUCrashed == \E t \in ThreadIds : lru_callers[t].pc = "crashed"

\* Pin(f) by thread t: lock, body, unlock
LPin(t, f) ==
  /\ ~LRUCrashed
  /\ lru_callers[t].pc = "idle"
  /\ lru_latch = 0
  /\ lru.pin_count_[f] < MaxPin
  /\ lru' = Pin(lru, f)
  /\ last' = Ret(TRUE, -1)
  /\ UNCHANGED <<lru_latch, lru_callers, lruConcRest>>

\* Unpin(f) by thread t: lock, body, unlock
LUnpin(t, f) ==
  /\ ~LRUCrashed
  /\ lru_callers[t].pc = "idle"
  /\ lru_latch = 0
  /\ lru' = Unpin(lru, f)
  /\ last' = Ret(TRUE, -1)
  /\ UNCHANGED <<lru_latch, lru_callers, lruConcRest>>

\* Victim by thread t, line 25: candidates_.empty(), read without the latch
LVictimCheck(t) ==
  /\ ~LRUCrashed
  /\ lru_callers[t].pc = "idle"
  /\ IF LRUSize(lru) = 0
     THEN /\ last' = Ret(FALSE, -1)
          /\ lru_callers' = [lru_callers EXCEPT ![t].frame = -1]
     ELSE /\ last' = NoCall
          /\ lru_callers' = [lru_callers EXCEPT ![t].pc = "lock", ![t].frame = -1]
  /\ UNCHANGED <<lru, lru_latch, lruConcRest>>

\* Victim by thread t, line 28: latch_.lock()
LVictimLock(t) ==
  /\ ~LRUCrashed
  /\ lru_callers[t].pc = "lock"
  /\ lru_latch = 0
  /\ lru_latch' = t
  /\ lru_callers' = [lru_callers EXCEPT ![t].pc = "pop"]
  /\ UNCHANGED <<lru, last, lruConcRest>>

\* Victim by thread t, lines 29-32: front(), pop_front(), unlock, return true.
\* front() and pop_front() of an empty list are undefined: the program
\* crashes, or the call returns whatever frame id it read.
LVictimPop(t) ==
  /\ ~LRUCrashed
  /\ lru_callers[t].pc = "pop"
  /\ IF Victim(lru).ok
     THEN /\ lru' = Victim(lru).l
          /\ lru_latch' = 0
          /\ lru_callers' = [lru_callers EXCEPT ![t].pc = "idle", ![t].frame = Victim(lru).frame]
          /\ last' = Ret(TRUE, Victim(lru).frame)
     ELSE \/ /\ lru_callers' = [lru_callers EXCEPT ![t].pc = "crashed"]
             /\ UNCHANGED <<lru, lru_latch, last>>
          \/ \E f \in FrameIds :
               /\ lru_callers' = [lru_callers EXCEPT ![t] = LRUCaller("idle", f, TRUE)]
               /\ lru_latch' = 0
               /\ last' = Ret(TRUE, f)
               /\ UNCHANGED lru
  /\ UNCHANGED lruConcRest

NextLRUConc ==
  \/ \E t \in ThreadIds, f \in FrameIds : LPin(t, f)
  \/ \E t \in ThreadIds, f \in FrameIds : LUnpin(t, f)
  \/ \E t \in ThreadIds : LVictimCheck(t)
  \/ \E t \in ThreadIds : LVictimLock(t)
  \/ \E t \in ThreadIds : LVictimPop(t)

\* ========================================================== specifications
\* the LRUKReplacer on its own, its k and the node default open
UnitIdle == BucketIdle /\ ClockIdle /\ LatchedIdle /\ LRUConcIdle

ExtIdle == LRUIdle /\ AllocIdle /\ GuardIdle /\ HashIdle /\ ConcIdle /\ UnitIdle

InitLRUK == LRUKInit /\ BPMInit(PoolSize) /\ BPIInit(PoolSize) /\ ExtIdle /\ last = NoCall
SpecLRUK == InitLRUK /\ [][NextLRUK]_vars

\* the BufferPoolManager under any calls with any page ids; its replacer's k
\* and node default open
InitBPM ==
  /\ LRUKInit
  /\ \E n \in 1 .. PoolSize : BPMInit(n) /\ BPIInit(n)
  /\ ExtIdle
  /\ last = NoCall
SpecBPM == InitBPM /\ [][NextBPM]_vars

\* the BufferPoolManagerInstance under a client that writes into the pages it
\* has pinned and unpins only what it has pinned
InitBPI == LRUKIdle /\ BPMInit(BPIPoolSize) /\ BPIInit(BPIPoolSize) /\ ExtIdle /\ last = NoCall
SpecBPI == InitBPI /\ [][NextBPI]_vars

\* two BufferPoolManagerInstances of one pool (or the only instance of a pool
\* of one) allocating page ids
InitAlloc ==
  /\ LRUKIdle
  /\ pool_size = BPIPoolSize
  /\ pages = [f \in 0 .. (BPIPoolSize - 1) |-> EmptyPage]
  /\ page_table = EmptyMap
  /\ free_list = [i \in 1 .. BPIPoolSize |-> i - 1]
  /\ disk = [p \in PageIds |-> 0]
  /\ pins = [p \in PageIds |-> 0]
  /\ \E n \in 1 .. MaxInstances : BPIPoolInit(n)
  /\ LRUIdle
  /\ GuardIdle
  /\ HashIdle
  /\ ConcIdle
  /\ UnitIdle
  /\ last = NoCall
SpecAlloc == InitAlloc /\ [][NextAlloc]_vars

\* BasicPageGuard objects under any Drop, move and destruction
InitGuard ==
  /\ LRUKIdle /\ BPMInit(PoolSize) /\ BPIInit(PoolSize)
  /\ LRUIdle /\ AllocIdle /\ GuardInit /\ HashIdle /\ ConcIdle /\ UnitIdle
  /\ last = NoCall
SpecGuard == InitGuard /\ [][NextGuard]_vars

\* a DiskExtendibleHashTable under any GetValue, Insert and Remove calls
InitHash ==
  /\ LRUKIdle /\ BPMInit(PoolSize) /\ BPIInit(PoolSize)
  /\ LRUIdle /\ AllocIdle /\ GuardIdle /\ HashInit /\ ConcIdle /\ UnitIdle
  /\ last = NoCall
SpecHash == InitHash /\ [][NextHash]_vars

\* threads calling NewPage, FetchPage, UnpinPage and DeletePage on one
\* BufferPoolManager
InitConc ==
  /\ LRUKInit
  /\ \E n \in 1 .. PoolSize : BPMInit(n) /\ BPIInit(n)
  /\ ExtIdle
  /\ last = NoCall
SpecConc == InitConc /\ [][NextConc]_vars

\* a HashTableBucketPage on its own, zeroed, under any Insert and Remove calls
InitBucket ==
  /\ LRUKIdle /\ BPMInit(PoolSize) /\ BPIInit(PoolSize)
  /\ ExtIdle
  /\ last = NoCall
SpecBucket == InitBucket /\ [][NextBucket]_vars

\* a ClockReplacer under any Pin, Unpin and Victim calls with the frame ids of
\* its pool; a Victim call that has begun keeps running
InitClock ==
  /\ LRUKIdle /\ BPMInit(PoolSize) /\ BPIInit(PoolSize)
  /\ LRUIdle /\ AllocIdle /\ GuardIdle /\ HashIdle /\ ConcIdle
  /\ BucketIdle /\ LatchedIdle /\ LRUConcIdle
  /\ \E n \in 1 .. MaxClockPages : clock = NewClock(n)
  /\ victim_pc = "idle"
  /\ last = NoCall
SpecClock == InitClock /\ [][NextClock]_vars /\ WF_vars(VictimSweep \/ VictimTake)

\* threads calling Victim, Pin and Unpin on one LRUReplacer
InitLRUConc == LRUKIdle /\ BPMInit(PoolSize) /\ BPIInit(PoolSize) /\ ExtIdle /\ last = NoCall
SpecLRUConc == InitLRUConc /\ [][NextLRUConc]_vars

\* threads calling RecordAccess, SetEvictable, Evict and Remove on one
\* LRUKReplacer
InitLatched ==
  /\ BPMInit(PoolSize) /\ BPIInit(PoolSize)
  /\ LRUIdle /\ AllocIdle /\ GuardIdle /\ HashIdle /\ ConcIdle
  /\ BucketIdle /\ ClockIdle /\ LRUConcIdle
  /\ LatchedInit
  /\ last = NoCall
SpecLatched == InitLatched /\ [][NextLatched]_vars

\* the LRUReplacer on its own, under any Pin, Unpin and Victim calls
InitLRU == LRUKIdle /\ BPMInit(PoolSize) /\ BPIInit(PoolSize) /\ ExtIdle /\ last = NoCall
SpecLRU == InitLRU /\ [][NextLRU]_vars


\* ================================================================== claims
\* p is resident: the page table maps it to a frame that holds it
Held(p) == p \in DOMAIN page_table /\ pages[page_table[p] % pool_size].page_id_ = p

\* every entry of the page table is the entry of a resident page
TableSound == \A q \in DOMAIN page_table : Held(q)

\* the frames the replacer holds as evictable
EvictableSet(r) == {f \in DOMAIN r.node_store_ : r.node_store_[f].is_evictable_}

\* every frame of the pool holds a page some client still pins
AllPinned ==
  \A f \in Frames : \E p \in PageIds : pins[p] > 0 /\ Held(p) /\ page_table[p] = f

\* C1: a page with more successful NewPage/FetchPage calls than UnpinPage calls
\* is never evicted (it stays resident in its frame across every call); and
\* when every frame holds such a page, FetchPage of a page that is not resident
\* returns null and leaves the page table and every frame's page id unchanged.
\* Stated for calls made while the page table holds resident pages only.
C1_PinnedNeverEvicted ==
  [][ /\ \A p \in PageIds :
           (TableSound /\ pins[p] > 0 /\ Held(p))
             => (p \in DOMAIN page_table'
                 /\ page_table'[p] = page_table[p]
                 /\ pages'[page_table[p] % pool_size].page_id_ = p)
      /\ (TableSound /\ AllPinned /\ \E q \in PageIds : q \notin DOMAIN page_table /\ FetchPage(q))
           => (/\ ~last'.ok
               /\ page_table' = page_table
               /\ \A f \in Frames : pages'[f].page_id_ = pages[f].page_id_)
    ]_vars

\* C2: in every state the sum of pin_count_ over the frames equals the number
\* of successful NewPage/FetchPage calls not yet matched by a successful
\* UnpinPage of the same page.
C2_PinAccounting ==
  SumOver([f \in Frames |-> pages[f].pin_count_], Frames) = SumOver(pins, PageIds)

\* C3: UnpinPage(p, false) on a resident page that has been unpinned as many
\* times as it was pinned returns false and leaves the frames, the page table,
\* the free list and the replacer unchanged.
\* Stated for calls made while the page table holds resident pages only.
C3_UnpinIdempotentAtZero ==
  [][ \A p \in PageIds :
        (TableSound /\ Held(p) /\ pins[p] = 0 /\ UnpinPage(p, FALSE))
          => (~last'.ok /\ UNCHANGED <<pages, page_table, free_list, replacer>>)
    ]_vars

\* C4: UnpinPage(p, _) for a page id that is not resident returns false, the
\* page table gains no entry for p, no frame's pin count or dirty bit changes
\* and the replacer's evictable set is unchanged.
C4_UnpinNotResident ==
  [][ \A p \in PageIds, d \in BOOLEAN :
        (p \notin DOMAIN page_table /\ UnpinPage(p, d))
          => (/\ ~last'.ok
              /\ p \notin DOMAIN page_table'
              /\ \A f \in Frames : /\ pages'[f].pin_count_ = pages[f].pin_count_
                                   /\ pages'[f].is_dirty_ = pages[f].is_dirty_
              /\ EvictableSet(replacer') = EvictableSet(replacer))
    ]_vars

\* a call that flushes, deletes or re-initialises a frame
FlushDeleteOrInit ==
  \/ \E p \in PageIds : FlushPage(p)
  \/ FlushAllPages
  \/ \E p \in PageIds : DeletePage(p)
  \/ NewPage
  \/ \E p \in PageIds : FetchPageMiss(p)

\* C5: a successful UnpinPage(p, false) by a client that pins the resident page
\* p leaves a set dirty bit set; a dirty bit is cleared only by a flush, a
\* delete or the re-initialisation of the frame.
\* Stated for pages a client still pins, while the page table holds resident
\* pages only.
C5_UnpinOrsDirty ==
  [][ /\ \A p \in PageIds :
           (/\ TableSound /\ Held(p) /\ pins[p] > 0
            /\ pages[page_table[p] % pool_size].is_dirty_
            /\ UnpinPage(p, FALSE) /\ last'.ok)
             => pages'[page_table[p] % pool_size].is_dirty_
      /\ \A p \in PageIds :
           (/\ TableSound /\ Held(p) /\ pins[p] > 0
            /\ pages[page_table[p] % pool_size].is_dirty_
            /\ ~pages'[page_table[p] % pool_size].is_dirty_)
             => FlushDeleteOrInit
    ]_vars

\* the call takes its frame from the replacer and so evicts the page held there
EvictsFrom(f) ==
  /\ NewPgImp \/ \E q \in PageIds : FetchPgImpMiss(q)
  /\ free_list = <<>>
  /\ last'.ok /\ last'.frame = f

\* C6: when NewPage/FetchPage evicts a page p that was unpinned with
\* is_dirty = true since it was loaded or last written to disk, the disk store
\* holds the contents of p's frame before the frame is overwritten.
\* Stated for pages whose contents have not changed since that unpin.
C6_DirtyWrittenOnEvict ==
  [][ \A p \in PageIds :
        (p \in owed /\ Held(p) /\ EvictsFrom(page_table[p] % pool_size))
          => disk'[p] = pages[page_table[p] % pool_size].data_
    ]_vars

\* C7: NewPage returns null exactly when the free list is empty and the
\* replacer holds no evictable frame; otherwise the frame it returns holds the
\* fresh page id with pin_count_ = 1 and is_dirty_ = false, and the page table
\* maps the page id to that frame.
C7_NewPageNullIff ==
  [][ NewPage =>
        /\ ~last'.ok <=> (free_list = <<>> /\ EvictableSet(replacer) = {})
        /\ last'.ok =>
             /\ pages'[last'.frame].page_id_ = next_page_id
             /\ pages'[last'.frame].pin_count_ = 1
             /\ ~pages'[last'.frame].is_dirty_
             /\ next_page_id \in DOMAIN page_table'
             /\ page_table'[next_page_id] = last'.frame
    ]_vars

\* C8: DeletePage(p) on a resident page whose every pin has been released
\* returns true, and afterwards p is not in the page table and its frame is on
\* the free list with page_id_ = INVALID_PAGE_ID, pin_count_ = 0, is_dirty_ = false.
\* Stated for calls made while the page table holds resident pages only.
C8_DeleteUnpinned ==
  [][ \A p \in PageIds :
        (TableSound /\ Held(p) /\ pins[p] = 0 /\ DeletePage(p))
          => (/\ last'.ok
              /\ p \notin DOMAIN page_table'
              /\ InList(free_list', page_table[p])
              /\ pages'[page_table[p] % pool_size].page_id_ = INVALID_PAGE_ID
              /\ pages'[page_table[p] % pool_size].pin_count_ = 0
              /\ ~pages'[page_table[p] % pool_size].is_dirty_)
    ]_vars

\* C9: as long as SetEvictable has only been applied to frames already
\* accessed, Size() equals the number of tracked frames whose is_evictable_
\* flag is true.
C9_SizeCountsEvictable ==
  ~set_unaccessed => Size(replacer) = Cardinality(EvictableSet(replacer))

\* an accessed, evictable frame with fewer than k_ recorded accesses
ColdEvictable(r, g) ==
  Accessed(r, g) /\ NodeAt(r, g).is_evictable_ /\ NodeAt(r, g).access_cnt < r.k_

\* C10: Evict returns a frame with at least k_ recorded accesses only when no
\* evictable frame with fewer than k_ recorded accesses exists.
C10_EvictColdFirst ==
  [][ (DoEvict /\ last'.ok /\ NodeAt(replacer, last'.frame).access_cnt >= replacer.k_)
        => ~\E g \in FrameIds : ColdEvictable(replacer, g)
    ]_vars


\* the timestamps of the accesses recorded for frame f
Times(f) == {i \in 1 .. Len(history) : history[i] = f}

\* the timestamp of the earliest recorded access of f
FirstSeen(f) == SetMin(Times(f))

\* the timestamp of the k-th most recent recorded access of f
KthRecent(f, k) == CHOOSE i \in Times(f) : Cardinality({j \in Times(f) : j >= i}) = k

\* the replacer tracks exactly the frames with recorded accesses, each in one of
\* its lists and with access_cnt the number of accesses recorded for it
Faithful ==
  \A f \in FrameIds :
    IF f \in DOMAIN replacer.node_store_
    THEN /\ Accessed(replacer, f) /\ Times(f) # {}
         /\ replacer.node_store_[f].access_cnt = Cardinality(Times(f))
    ELSE Times(f) = {}

\* the evictable frames with fewer than k_ recorded accesses, and those with
\* at least k_
Cold == {g \in FrameIds : ColdEvictable(replacer, g)}
Warm == {g \in FrameIds : /\ Accessed(replacer, g) /\ NodeAt(replacer, g).is_evictable_
                          /\ NodeAt(replacer, g).access_cnt >= replacer.k_}

\* C11: when an evictable frame with fewer than k_ accesses exists, Evict
\* returns, among the evictable cold frames, the one whose earliest recorded
\* access is the oldest, whatever later accesses the cold frames received.
C11_ColdFirstSeenOrder ==
  [][ (DoEvict /\ Faithful /\ Cold # {})
        => (/\ last'.ok
            /\ last'.frame \in Cold
            /\ \A g \in Cold : FirstSeen(last'.frame) <= FirstSeen(g))
    ]_vars

\* C12: when no evictable cold frame exists, Evict returns, among the evictable
\* frames with at least k_ accesses, the one whose k_-th most recent access is
\* the oldest.
C12_WarmKDistanceOrder ==
  [][ (DoEvict /\ Faithful /\ Cold = {} /\ Warm # {})
        => (/\ last'.ok
            /\ last'.frame \in Warm
            /\ \A g \in Warm : KthRecent(last'.frame, replacer.k_) <= KthRecent(g, replacer.k_))
    ]_vars

\* a tracked frame: it has received an access and has not been evicted since,
\* so it sits in one of the two candidate lists
Tracked(r, f) == Accessed(r, f)

TrackedEvictable(r) == {f \in FrameIds : Tracked(r, f) /\ NodeAt(r, f).is_evictable_}

\* C13: Evict returns false exactly when no tracked frame is evictable; when
\* it returns true the returned frame was tracked and evictable, and afterwards
\* it is in neither list and has no node, so that the next RecordAccess of a
\* frame without a node (the step that appends the frame to the history)
\* counts one access and puts it among the cold frames.
C13_EvictFalseIffNoneEvictable ==
  [][ /\ DoEvict =>
           /\ last'.ok <=> (TrackedEvictable(replacer) # {})
           /\ last'.ok =>
                 /\ last'.frame \in TrackedEvictable(replacer)
                 /\ ~Tracked(replacer', last'.frame)
                 /\ last'.frame \notin DOMAIN replacer'.node_store_
                 /\ ~InList(history', last'.frame)
      /\ \A f \in FrameIds :
           (f \notin DOMAIN replacer.node_store_ /\ history' = Append(history, f)) =>
             /\ replacer'.node_store_[f].access_cnt = 1
             /\ InList(replacer'.candidates_, f)
             /\ ~InList(replacer'.candidates_k_, f) ]_vars

\* Evict has just returned a frame, which is no longer tracked, while another
\* tracked frame is still evictable
C13_Witness ==
  /\ last.ok /\ last.frame \in FrameIds
  /\ ~Tracked(replacer, last.frame)
  /\ last.frame \notin DOMAIN replacer.node_store_
  /\ TrackedEvictable(replacer) # {}

\* C14: Remove(f) on a tracked evictable frame purges it: afterwards f is not
\* tracked and Size() is one less (so that Evict cannot return f before f is
\* accessed again).
C14_RemovePurges ==
  [][ \A f \in FrameIds :
        (DoRemove(f) /\ f \in TrackedEvictable(replacer)) =>
          /\ ~Tracked(replacer', f)
          /\ f \notin DOMAIN replacer'.node_store_
          /\ Size(replacer') = Size(replacer) - 1 ]_vars

\* C15: Unpin decrements the pin count of a frame, and the frame becomes a
\* candidate of Victim only when the count reaches zero: unpinning a frame
\* that is pinned twice or more (by the replacer's own count and by the calls
\* made) leaves it pinned and outside the candidates.
C15_UnpinDecrements ==
  [][ \A f \in FrameIds :
        (DoUnpin(f) /\ lru.pin_count_[f] >= 2 /\ lru_pins[f] >= 2) =>
          /\ lru'.pin_count_[f] = lru.pin_count_[f] - 1
          /\ ~InList(lru'.candidates_, f) ]_vars

\* C16: every page id AllocatePage returns is congruent to the instance's
\* index modulo the number of instances (ValidatePageId's assertion holds),
\* the ids one instance returns are strictly increasing, and two instances of
\* one pool with different indexes never return the same id.
C16_AllocatedIdsDisjoint ==
  /\ \A i \in 1 .. Len(ids) : ValidatePageId(ids[i], num_instances, instance_index)
  /\ \A i \in 1 .. Len(peer_ids) :
       ValidatePageId(peer_ids[i], num_instances, peer.instance_index_)
  /\ \A i, j \in 1 .. Len(ids) : i < j => ids[i] < ids[j]
  /\ \A i, j \in 1 .. Len(peer_ids) : i < j => peer_ids[i] < peer_ids[j]
  /\ peer.instance_index_ # instance_index =>
       \A i \in 1 .. Len(ids), j \in 1 .. Len(peer_ids) : ids[i] # peer_ids[j]
  /\ (Len(ids) > 0 \/ Len(peer_ids) > 0) => last.ok

\* two instances of a pool of three have each allocated several ids
C16_Witness ==
  /\ num_instances = 3 /\ peer # NoPeer /\ peer.instance_index_ # instance_index
  /\ Len(ids) >= 3 /\ Len(peer_ids) >= 3

\* the UnpinPage calls the guards made for page p
UnpinCalls(p) ==
  Cardinality({i \in 1 .. Len(bpm_calls) :
                 bpm_calls[i].op = "UnpinPage" /\ bpm_calls[i].page_id = p})

\* C17: a page held by a guard is unpinned once: whatever sequence of Drop
\* calls, moves and destructions the guards go through (no Drop on a guard
\* that holds nothing), UnpinPage is never called twice for the page.
C17_GuardUnpinsOnce ==
  guard_ub = "none" => \A p \in 0 .. (GuardPages - 1) : UnpinCalls(p) <= 1

\* the values stored under key: what GetValue(key) may push
Stored(key) ==
  UNION {{BucketGetValue(b, key)[i] : i \in 1 .. Len(BucketGetValue(b, key))} :
           b \in FetchBucketPage(ht, KeyToPageId(ht, key))}

\* C18: Insert(k, v) of a pair that is not stored returns true (and the pair
\* is then found by GetValue(k) until Remove(k, v) removes it).
C18_InsertRoundTrip ==
  [][ \A key \in HTKeys, value \in HTValues :
        (HTInsert(key, value) /\ value \notin Stored(key)) => last'.ok ]_vars

\* the entries of the directory
DirEntries == 0 .. (2 ^ ht.global_depth - 1)

\* C19: the directory invariants hold after construction and after every
\* Insert and Remove: each entry's local depth is at most the global depth,
\* two entries reference the same bucket page exactly when they agree on the
\* low local-depth bits, and every entry references a bucket page of the table.
C19_DirectoryInvariants ==
  /\ \A i \in DirEntries : ht.local_depths[i] <= ht.global_depth
  /\ \A i, j \in DirEntries :
       (ht.bucket_page_ids[i] = ht.bucket_page_ids[j])
         <=> (i % (2 ^ ht.local_depths[i]) = j % (2 ^ ht.local_depths[i]))
  /\ \A i \in DirEntries :
       /\ ht.bucket_page_ids[i] \in DOMAIN ht.buckets
       /\ ht.bucket_page_ids[i] # ht.directory_page_id_

\* the thread has been handed a frame by AllocateNewFrame and has not returned
HandedOut(t) == threads[t].pc \in {"meta", "pin", "emplace"}

\* C20: under any interleaving of the calls of several threads, no frame is
\* handed out to two callers at once, and no page id is resident in two frames
\* at once.
C20_NoSharedFrame ==
  ~Undefined =>
    /\ \A t, u \in ThreadIds :
         (t # u /\ HandedOut(t) /\ HandedOut(u)) => threads[t].frame # threads[u].frame
    /\ \A f, g \in Frames :
         (f # g /\ pages[f].page_id_ # INVALID_PAGE_ID) => pages[f].page_id_ # pages[g].page_id_

\* C22: in every state, a frame that holds a resident page is marked evictable
\* in the replacer exactly when the frame's pin_count_ is 0.
C22_EvictableIffUnpinned ==
  \A p \in DOMAIN page_table :
    Held(p) =>
      ((page_table[p] \in EvictableSet(replacer))
         <=> (pages[page_table[p] % pool_size].pin_count_ = 0))

\* C23: in every state reached by NewPage, FetchPage, UnpinPage, FlushPage and
\* DeletePage calls with any page ids, each page-table entry (p, f) has
\* pages_[f].page_id_ = p and f off the free list, and no two entries map to
\* the same frame.
C23_PageTableSound ==
  /\ \A p \in DOMAIN page_table :
       /\ pages[page_table[p] % pool_size].page_id_ = p
       /\ ~InList(free_list, page_table[p])
  /\ \A p, q \in DOMAIN page_table : p # q => page_table[p] # page_table[q]

\* C24: in every state, every frame on the free list has pin_count_ 0 and
\* page_id_ INVALID_PAGE_ID, is on the free list once, and is not an evictable
\* candidate of the replacer.
C24_FreeListSound ==
  \A i \in 1 .. Len(free_list) :
    /\ pages[free_list[i] % pool_size].pin_count_ = 0
    /\ pages[free_list[i] % pool_size].page_id_ = INVALID_PAGE_ID
    /\ \A j \in 1 .. Len(free_list) : free_list[j] = free_list[i] => j = i
    /\ free_list[i] \notin EvictableSet(replacer)

\* C27: h = std::move(g) on a guard h that holds a page releases that page
\* with one UnpinPage call before h takes over what g holds; afterwards h
\* holds the page of g and g holds nothing.
C27_MoveAssignReleases ==
  [][ \A h, g \in GuardIds, p \in 0 .. (GuardPages - 1) :
        (GuardMoveAssign(h, g) /\ guards[h].page_ = p) =>
          /\ UnpinCalls(p)' = UnpinCalls(p) + 1
          /\ guards'[h].page_ = guards[g].page_
          /\ guards'[g].page_ = -1
    ]_vars

\* C26: HashTableBucketPage::Insert never writes a slot of array_ at or past
\* BUCKET_ARRAY_SIZE: after any Insert and Remove calls size_ and taken_ stay
\* within the capacity, and Insert into a bucket that is full leaves the
\* bucket unchanged.
C26_InsertWithinCapacity ==
  [][ /\ bucket'.size_ <= BucketSize
      /\ bucket'.taken_ <= BucketSize
      /\ \A i \in 1 .. Len(bucket_ops') : bucket_ops'[i].slot < BucketSize
      /\ \A key \in HTKeys, value \in HTValues :
           (IsFull(bucket) /\ DoBucketInsert(key, value)) => bucket' = bucket
    ]_vars

\* C25: a Victim call made while Size() > 0 terminates and returns true,
\* whichever frames of 0 .. num_pages - 1 were unpinned (frame 0 included):
\* the sweep of the clock hand always ends.
C25_VictimTerminates ==
  (victim_pc = "sweep") ~> (victim_pc = "idle" /\ last.ok)

\* C28: under any interleaving of Victim, Pin and Unpin calls of several
\* threads, the emptiness test and the pop of Victim act as one step: no
\* Victim call that holds the latch and is about to pop finds candidates_
\* empty (a frame returned twice can only come from such a pop, the list
\* holding no frame twice).
C28_VictimNeverPopsEmpty ==
  \A t \in ThreadIds : lru_callers[t].pc = "pop" => lru.candidates_ # <<>>

\* C21: under any interleaving of RecordAccess, SetEvictable, Evict and Remove
\* calls of several threads, the replacer and the values returned are those
\* of the same calls run one after the other, in the order they took the
\* latch: once every call has returned the replacer is the one the serial run
\* gives, each call has returned what it returns in the serial run, and no
\* two Evict calls are at the same time about to remove and return one frame.
C21_CallsSerialized ==
  /\ (\A t \in ThreadIds : callers[t].pc = "idle") => replacer = serial.r
  /\ \A t \in ThreadIds : callers[t].pc = "idle" => callers[t].ret = callers[t].expect
  /\ \A t, u \in ThreadIds :
       (t # u /\ callers[t].pc = "erase" /\ callers[u].pc = "erase")
         => callers[t].found.frame # callers[u].found.frame

\* an Evict call has found its frame and holds the latch while another
\* thread's Evict call waits for it
C21_Witness ==
  \E t, u \in ThreadIds :
    /\ t # u
    /\ callers[t].op = "Evict" /\ callers[t].pc = "erase"
    /\ callers[u].op = "Evict" /\ callers[u].pc = "lock"

====
